---- MODULE Spec2Model ----
(***************************************************************************)
(* Upload lifecycle, retry engine and progress reporter of the Telegram    *)
(* download bot (src/menu_utama.py, src/download.py, src/ping.py,          *)
(* src/progress_manager.py, src/split.py).                                 *)
(*                                                                         *)
(* Two cooperative tasks share the History Store (download_history.json)   *)
(* and the download directory: the polling task, which handles one inbound *)
(* update at a time (menu_utama.py:1399-1403), and the monitoring task     *)
(* started once by DownloadBot.start (menu_utama.py:163).  A task runs     *)
(* without interruption from one await to the next, so every action below  *)
(* is the code between two suspension points.                              *)
(***************************************************************************)
EXTENDS Integers, Sequences, FiniteSets, TLC

VARIABLES
    history,                  \* download_history.json: the list of records
    files,                    \* download directory: path -> size in MB, 0 = no file
    next_id,                  \* number of download ids generated so far
    current_network_status,   \* RetryManager.current_network_status
    consecutive_failures,     \* RetryManager.consecutive_failures
    handler,                  \* position of the polling task inside handle_url_message
    monitor,                  \* position of the monitoring task inside a retry pass
    attempts,                 \* per download id: times the retry pass counted it in 'attempted'
    raised,                   \* exceptions that reached the except clause of the retry loop
    event,                    \* the operation performed by the last step
    active_progress,          \* RealTimeProgressManager.active_progress: user -> session
    update_lock,              \* RealTimeProgressManager.update_lock: user -> lock object
    locked,                   \* the lock objects that are held
    next_message_id,          \* message ids handed out by sendMessage so far
    now,                      \* time.time(), in half seconds
    task,                     \* per caller task: its call into the progress manager
    transmitted,              \* per live session: the report last sent to the API
    user_usage,               \* DownloadManager.user_usage: user -> date and MB used
    today,                    \* the local calendar date, as a day number
    fetching,                 \* the request whose fetch is running, if any
    splitter,                 \* position of process_large_video and what it has made
    admin_ids,                \* admin.txt: the ids of the admins
    allowed_ids,              \* allowed_user.txt: the ids of the approved users
    user_sessions,            \* DownloadBot.user_sessions: user -> mode
    is_monitoring,            \* RetryManager.is_monitoring
    loops,                    \* the start_monitoring calls: where each one is
    session,                  \* RetryManager.session: the timeouts it was created with
    video_splitter            \* DownloadBot.video_splitter: whether start() got one

\* the variables of the progress reporter
pvars == << active_progress, update_lock, locked, next_message_id, now, task,
           transmitted >>

\* the variables of the history store, the network state and the two bot tasks
hvars == << history, files, next_id, current_network_status, consecutive_failures,
            handler, monitor, attempts, raised >>

\* the variables of the download pipeline: daily quota, large-video delivery
qvars == << user_usage, today, fetching, splitter >>

\* the variables of access control and session routing
avars == << admin_ids, allowed_ids, user_sessions >>

\* the variables of the monitoring calls and the HTTP session of the
\* RetryManager, and the splitter the bot was started with
mvars == << is_monitoring, loops, session, video_splitter >>

vars == << history, files, next_id, current_network_status, consecutive_failures,
           handler, monitor, attempts, raised, event,
           active_progress, update_lock, locked, next_message_id, now, task,
           transmitted, user_usage, today, fetching, splitter,
           admin_ids, allowed_ids, user_sessions, is_monitoring, loops, session,
           video_splitter >>

----------------------------------------------------------------------------
(* Bounds of the model *)

\* number of fetch attempts (download ids) in one behaviour
MaxDownloads == 2
\* cap on the consecutive-failure counter, which the code never bounds
MaxFailures == 2
\* number of exceptions raised inside the retry loop in one behaviour
MaxRaises == 1
\* number of date rollovers in one behaviour
MaxDays == 1

(* Program constants *)

\* RetryManager.max_retries
max_retries == 5
\* check_file_needs_splitting(max_size_mb=50)
max_size_mb == 50
\* DownloadManager.daily_limit_mb
daily_limit_mb == 100
\* VideoSplitter.max_chunk_size_mb
max_chunk_size_mb == 45
\* ping_telegram_api: a 200 answer faster than 3 s is GOOD (tenths of a second)
good_response_time == 30
\* RetryManager.timeout_threshold, 15 s (tenths of a second)
timeout_threshold == 150

AudioPaths == {"a1"}
VideoPaths == {"v1"}
Paths == AudioPaths \cup VideoPaths
\* measured sizes (MB) of a fetched file: audio stays below max_size_mb, a
\* video is below or above it
SizesOf(mode) == IF mode = "mp3" THEN {40} ELSE {40, 60}
Ids == 1..MaxDownloads
NetworkStatus == {"good", "poor", "offline"}

NoReturn == [returned |-> FALSE, attempted |-> 0, successful |-> 0, failed |-> 0]
NoProbe == [kind |-> "none", status |-> 0, response_time |-> 0]
NoEvent == [op |-> "init", id |-> 0, arg |-> "", ret |-> NoReturn,
            probe |-> NoProbe, logged |-> << >>]
MonitorIdle == [pc |-> "idle", batch |-> << >>, i |-> 0,
                attempted |-> 0, successful |-> 0, failed |-> 0, loop |-> FALSE]
HandlerIdle == [pc |-> "idle", mode |-> "", download_id |-> 0, file_path |-> ""]

----------------------------------------------------------------------------
(* History Store *)

\* the entry log_dual_history appends
NewEntry(download_id, file_type, file_path, download_status, upload_status) ==
    [ download_id     |-> download_id,
      user_id         |-> 1,
      type            |-> file_type,
      file_path       |-> file_path,
      download_status |-> download_status,
      upload_status   |-> upload_status,
      retry_count     |-> 0,
      last_retry      |-> FALSE,
      upload_updated  |-> FALSE ]

log_dual_history(h, download_id, file_type, file_path, download_status, upload_status) ==
    Append(h, NewEntry(download_id, file_type, file_path, download_status, upload_status))

\* index of the first entry whose id matches, 0 when there is none
FirstMatch(h, download_id) ==
    IF \E k \in 1..Len(h) : h[k].download_id = download_id
    THEN CHOOSE k \in 1..Len(h) :
            /\ h[k].download_id = download_id
            /\ \A j \in 1..(k - 1) : h[j].download_id # download_id
    ELSE 0

\* variant: a successful retry starts the counter again
RetryUpdatedEntry_ResetOnSuccess(entry, new_status) ==
    [ entry EXCEPT
        !.upload_status  = new_status,
        !.upload_updated = TRUE,
        !.last_retry     = IF new_status = "SUCCESS" THEN TRUE ELSE @,
        !.retry_count    = IF new_status = "FAILED" THEN @ + 1 ELSE 0 ]

\* variant: a failed retry leaves the counter alone
RetryUpdatedEntry_NoBump(entry, new_status) ==
    [ entry EXCEPT
        !.upload_status  = new_status,
        !.upload_updated = TRUE,
        !.last_retry     = IF new_status = "SUCCESS" THEN TRUE ELSE @ ]

\* ping.py: what one matched entry becomes
RetryUpdatedEntry(entry, new_status) ==
    [ entry EXCEPT
        !.upload_status  = new_status,
        !.upload_updated = TRUE,
        !.last_retry     = IF new_status = "SUCCESS" THEN TRUE ELSE @,
        !.retry_count    = IF new_status = "FAILED" THEN @ + 1 ELSE @ ]

\* ping.py RetryManager.update_upload_status_in_history
RetryManager_update_upload_status_in_history(h, download_id, new_status) ==
    LET k == FirstMatch(h, download_id) IN
    IF k = 0 THEN h
    ELSE [ h EXCEPT ![k] = RetryUpdatedEntry(h[k], new_status) ]

\* download.py: what one matched entry becomes
DownloadUpdatedEntry(entry, status) ==
    [ entry EXCEPT !.upload_status = status, !.upload_updated = TRUE ]

\* download.py update_upload_status_in_history (the request handler's)
update_upload_status_in_history(h, download_id, status) ==
    LET k == FirstMatch(h, download_id) IN
    IF k = 0 THEN h
    ELSE [ h EXCEPT ![k] = DownloadUpdatedEntry(h[k], status) ]

\* os.path.exists
Exists(f, path) == path \in DOMAIN f /\ f[path] > 0

\* os.remove inside try/except: removing a missing file changes nothing
Remove(f, path) == IF path \in DOMAIN f THEN [ f EXCEPT ![path] = 0 ] ELSE f

\* variant: the upload outcome is not looked at
IsRetryable_AnyOutcome(entry, f) ==
    /\ entry.download_status = "SUCCESS"
    /\ entry.retry_count < max_retries
    /\ Exists(f, entry.file_path)

\* variant: the ceiling itself is still eligible
IsRetryable_InclusiveCeiling(entry, f) ==
    /\ entry.upload_status = "FAILED"
    /\ entry.download_status = "SUCCESS"
    /\ entry.retry_count <= max_retries
    /\ Exists(f, entry.file_path)

\* variant: a record is retried once only
IsRetryable_FirstRetryOnly(entry, f) ==
    /\ entry.upload_status = "FAILED"
    /\ entry.download_status = "SUCCESS"
    /\ entry.retry_count < 1
    /\ Exists(f, entry.file_path)

\* the filter of get_failed_uploads_from_history on one entry
IsRetryable(entry, f) ==
    /\ entry.upload_status = "FAILED"
    /\ entry.download_status = "SUCCESS"
    /\ entry.retry_count < max_retries
    /\ Exists(f, entry.file_path)

\* the entries of h[1..n] that pass the filter, in store order
RECURSIVE FilterRetryable(_, _, _)
FilterRetryable(h, f, n) ==
    IF n = 0 THEN << >>
    ELSE IF IsRetryable(h[n], f)
         THEN Append(FilterRetryable(h, f, n - 1), h[n])
         ELSE FilterRetryable(h, f, n - 1)

get_failed_uploads_from_history(h, f) == FilterRetryable(h, f, Len(h))

----------------------------------------------------------------------------
(* Upload Retry Engine *)

\* send_file_telegram up to its await: open(file_path) raises when the file is
\* missing, the exception is caught there and the call returns False at once
CanOpen(f, path) == Exists(f, path)

\* The retry loop from batch position i up to its next suspension point (the
\* POST of send_file_telegram) or the end of the batch.  st carries the store,
\* the attempt counters and the pass counters.
RECURSIVE RunBatch(_, _, _, _)
RunBatch(st, f, batch, i) ==
    IF i > Len(batch)
    THEN [ st EXCEPT !.pc = "idle", !.i = 0 ]
    ELSE
      LET upload == batch[i] IN
      IF upload.retry_count >= max_retries
      THEN RunBatch(st, f, batch, i + 1)
      ELSE
        LET counted == [ st EXCEPT
                          !.attempted = @ + 1,
                          !.attempts[upload.download_id] = @ + 1 ] IN
        IF upload.download_id = 0
        THEN RunBatch([ counted EXCEPT !.failed = @ + 1 ], f, batch, i + 1)
        ELSE IF upload.file_path = "" \/ upload.user_id = 0 \/ upload.type = ""
        THEN RunBatch([ counted EXCEPT !.failed = @ + 1 ], f, batch, i + 1)
        ELSE IF ~CanOpen(f, upload.file_path)
        THEN RunBatch(
               [ counted EXCEPT
                   !.failed = @ + 1,
                   !.history = RetryManager_update_upload_status_in_history(
                                   @, upload.download_id, "FAILED") ],
               f, batch, i + 1)
        ELSE [ counted EXCEPT !.pc = "sending", !.i = i ]

\* variant: only OFFLINE holds the pass back
NetworkAllowsRetry_NotOffline(status) == status # "offline"

\* whether retry_failed_uploads goes past its network check
NetworkAllowsRetry(status) == status = "good"

\* retry_failed_uploads from its entry to its first suspension point or return
RetryPassEntry(h, f, att, status) ==
    LET start == [ history |-> h, attempts |-> att, pc |-> "idle", i |-> 0,
                   attempted |-> 0, successful |-> 0, failed |-> 0 ] IN
    IF ~NetworkAllowsRetry(status)
    THEN [ st |-> start, batch |-> << >> ]
    ELSE LET failed_uploads == get_failed_uploads_from_history(h, f) IN
         [ st |-> RunBatch(start, f, failed_uploads, 1), batch |-> failed_uploads ]

\* the monitor's position after a synchronous stretch of the pass
MonitorAfter(st, batch, loop) ==
    IF st.pc = "idle" THEN MonitorIdle
    ELSE [ pc |-> st.pc, batch |-> batch, i |-> st.i,
           attempted |-> st.attempted, successful |-> st.successful,
           failed |-> st.failed, loop |-> loop ]

\* the dict retry_failed_uploads returns when the stretch ends the pass
StatsAfter(st) ==
    IF st.pc = "idle"
    THEN [ returned |-> TRUE, attempted |-> st.attempted,
           successful |-> st.successful, failed |-> st.failed ]
    ELSE NoReturn

\* variant: only a GOOD probe clears the counter
NextFailures_PoorKeeps(status, n) ==
    IF status = "offline" THEN n + 1 ELSE IF status = "good" THEN 0 ELSE n

\* counter update of update_network_status
NextFailures(status, n) == IF status = "offline" THEN n + 1 ELSE 0

----------------------------------------------------------------------------
(* Monitoring task: RetryManager.start_monitoring *)

Ev(op, id, arg, ret) ==
    [op |-> op, id |-> id, arg |-> arg, ret |-> ret, probe |-> NoProbe, logged |-> << >>]

\* a step of the monitoring task: the probe it got an answer for and the lines
\* it appended to network_status.log
EvMonitor(op, id, arg, ret, probe, logged) ==
    [op |-> op, id |-> id, arg |-> arg, ret |-> ret, probe |-> probe, logged |-> logged]

\* the probes of one behaviour: a response (HTTP status, time in tenths of a
\* second), the 20 s timeout of the session, any other exception
Response(status, response_time) ==
    [kind |-> "response", status |-> status, response_time |-> response_time]
TimedOut == [kind |-> "timeout", status |-> 0, response_time |-> 200]
Raised == [kind |-> "exception", status |-> 0, response_time |-> 1]
Probes ==
    { Response(status, t) : status \in {200, 401, 404, 429, 500},
                            t \in {1, 12, 29, 30, 31, 80, 149, 150, 151, 199} }
      \cup { TimedOut, [ TimedOut EXCEPT !.response_time = 100 ],
             Raised, [ Raised EXCEPT !.response_time = 50 ] }
\* one probe of each classification
MainProbes == { Response(200, 12), Response(200, 80), TimedOut }

\* variant: a slow 200 answer past the threshold counts as OFFLINE
ping_telegram_api_SlowIsOffline(probe) ==
    IF probe.kind = "response"
    THEN IF probe.status = 200
         THEN IF probe.response_time < good_response_time THEN "good"
              ELSE IF probe.response_time < timeout_threshold THEN "poor"
              ELSE "offline"
         ELSE "poor"
    ELSE "offline"

\* the classification ping_telegram_api returns for the answer of its GET
ping_telegram_api(probe) ==
    IF probe.kind = "response"
    THEN IF probe.status = 200
         THEN IF probe.response_time < good_response_time THEN "good"
              ELSE IF probe.response_time < timeout_threshold THEN "poor"
              ELSE "poor"
         ELSE "poor"
    ELSE "offline"

\* log_network_status: the line appended to network_status.log
log_network_status(status, response_time, error) ==
    << [status |-> status, response_time |-> response_time, error |-> error] >>

\* variant: every probe is logged
StatusChangeLogged_EveryProbe(status, response_time, stored) ==
    log_network_status(status, response_time, "Status changed")

\* update_network_status: the line logged when the classification changes
StatusChangeLogged(status, response_time, stored) ==
    IF status # stored
    THEN log_network_status(status, response_time, "Status changed")
    ELSE << >>

\* start_monitoring: the line logged when the retry pass it called returns
\* with at least one record attempted
RetryStatsLogged(loop, stats) ==
    IF loop /\ stats.returned /\ stats.attempted > 0
    THEN log_network_status("good", 0,
                            "Retry stats")
    ELSE << >>

\* the monitor variables after a synchronous stretch of the retry pass; loop
\* tells whether start_monitoring made the call, logged is what the step had
\* appended to the log before the stretch
MonitorResult(r, op, id, arg, loop, probe, logged) ==
    /\ history' = r.st.history
    /\ attempts' = r.st.attempts
    /\ monitor' = MonitorAfter(r.st, r.batch, loop)
    /\ event' = EvMonitor(op, id, arg, StatsAfter(r.st), probe,
                          logged \o RetryStatsLogged(loop, StatsAfter(r.st)))

\* One loop iteration from the answer of the probe: update_network_status
\* stores the classification and the counter, and a GOOD cycle goes straight
\* into retry_failed_uploads (no await in between).
MonitorCycle(probe) ==
    LET status == ping_telegram_api(probe)
        logged == StatusChangeLogged(status, probe.response_time,
                                     current_network_status)
    IN
    /\ UNCHANGED << pvars, qvars, avars, mvars >>
    /\ monitor.pc = "idle"
    /\ status = "offline" => consecutive_failures < MaxFailures
    /\ current_network_status' = status
    /\ consecutive_failures' = NextFailures(status, consecutive_failures)
    /\ IF status = "good"
       THEN MonitorResult(RetryPassEntry(history, files, attempts, status),
                          "probe_cycle", 0, "retry", TRUE, probe, logged)
       ELSE /\ event' = EvMonitor("probe_cycle", 0, "", NoReturn, probe, logged)
            /\ UNCHANGED << history, attempts, monitor >>
    /\ UNCHANGED << files, next_id, handler, raised >>

\* retry_failed_uploads called on its own, whatever the stored classification
RetryFailedUploads ==
    /\ UNCHANGED << pvars, qvars, avars, mvars >>
    /\ monitor.pc = "idle"
    /\ MonitorResult(RetryPassEntry(history, files, attempts, current_network_status),
                     "retry_call", 0, "retry", FALSE, NoProbe, << >>)
    /\ UNCHANGED << files, next_id, current_network_status, consecutive_failures,
                    handler, raised >>

\* the pass counters and the store carried into RunBatch
PassState(h) ==
    [ history |-> h, attempts |-> attempts, pc |-> "idle", i |-> monitor.i,
      attempted |-> monitor.attempted, successful |-> monitor.successful,
      failed |-> monitor.failed ]

\* the store after the retry pass got the answer of a send
RetrySendOutcome(h, download_id, success) ==
    RetryManager_update_upload_status_in_history(
        h, download_id, IF success THEN "SUCCESS" ELSE "FAILED")

\* variant: the retry pass deletes every file it has delivered
RetryDeletesFile_AnyType(file_type) == TRUE

\* whether the retry pass deletes the file it has just delivered
RetryDeletesFile(file_type) == file_type = "MP4"

\* The POST of send_file_telegram answers for batch entry i: on success the
\* record is marked, a video file is removed and the pass sleeps 2s; on
\* failure the record is marked and the loop goes on to the next entry.
SendFileDone(success) ==
    /\ UNCHANGED << pvars, qvars, avars, mvars >>
    /\ monitor.pc = "sending"
    /\ LET upload == monitor.batch[monitor.i]
           h2 == RetrySendOutcome(history, upload.download_id, success)
       IN IF success
          THEN /\ history' = h2
               /\ files' = IF RetryDeletesFile(upload.type)
                           THEN Remove(files, upload.file_path) ELSE files
               /\ monitor' = [ monitor EXCEPT !.pc = "delay", !.successful = @ + 1 ]
               /\ attempts' = attempts
               /\ event' = Ev("retry_send_done", upload.download_id, "SUCCESS", NoReturn)
          ELSE /\ MonitorResult(
                    [ st |-> RunBatch([ PassState(h2) EXCEPT !.failed = @ + 1 ],
                                      files, monitor.batch, monitor.i + 1),
                      batch |-> monitor.batch ],
                    "retry_send_done", upload.download_id, "FAILED",
                    monitor.loop, NoProbe, << >>)
               /\ files' = files
    /\ UNCHANGED << next_id, current_network_status, consecutive_failures, handler,
                    raised >>

\* asyncio.sleep(2) after a successful retry is over: next entry
RetryDelayDone ==
    /\ UNCHANGED << pvars, qvars, avars, mvars >>
    /\ monitor.pc = "delay"
    /\ MonitorResult(
          [ st |-> RunBatch(PassState(history), files, monitor.batch, monitor.i + 1),
            batch |-> monitor.batch ],
          "retry_delay_done", 0, "", monitor.loop, NoProbe, << >>)
    /\ UNCHANGED << files, next_id, current_network_status, consecutive_failures,
                    handler, raised >>

\* variant: the exception ends the pass
AfterRetryError_Abort(st, f, batch, i) ==
    [ st EXCEPT !.failed = @ + 1, !.pc = "idle", !.i = 0 ]

\* the except clause of the retry loop: count the entry as failed, go on
AfterRetryError(st, f, batch, i) ==
    RunBatch([ st EXCEPT !.failed = @ + 1 ], f, batch, i + 1)

\* An exception leaves the try body while batch entry i is being retried
\* (before any status update): the except clause of the loop takes it.
RetryRaises ==
    /\ UNCHANGED << pvars, qvars, avars, mvars >>
    /\ monitor.pc = "sending"
    /\ raised < MaxRaises
    /\ raised' = raised + 1
    /\ MonitorResult(
          [ st |-> AfterRetryError(PassState(history), files, monitor.batch, monitor.i),
            batch |-> monitor.batch ],
          "retry_raise", monitor.batch[monitor.i].download_id, "",
          monitor.loop, NoProbe, << >>)
    /\ UNCHANGED << files, next_id, current_network_status, consecutive_failures,
                    handler >>

----------------------------------------------------------------------------
(* Polling task: DownloadBot.handle_url_message and admin commands *)

FileType(mode) == IF mode = "mp3" THEN "MP3" ELSE "MP4"
PathsOf(mode) == IF mode = "mp3" THEN AudioPaths ELSE VideoPaths

\* variant: a file of exactly max_size_mb is split as well
check_file_needs_splitting_AtLimit(f, path) == Exists(f, path) /\ f[path] >= max_size_mb

\* download.check_file_needs_splitting
check_file_needs_splitting(f, path) == Exists(f, path) /\ f[path] > max_size_mb

\* download_mp3 / download_mp4 ran to their return.  "SUCCESS" leaves the
\* file on disk and a PENDING record; "FAILED" (metadata or tool failure) and
\* "ERROR" (exception) leave an N/A record; "NONE" is a return that logs no
\* record (quota rejection, file not found after download).
DownloadAs(op, arg, mode, outcome, path, size) ==
    /\ UNCHANGED << pvars, qvars, avars, mvars >>
    /\ raised' = raised
    /\ handler.pc = "idle"
    /\ next_id < MaxDownloads
    /\ next_id' = next_id + 1
    /\ LET download_id == next_id + 1 IN
       CASE outcome = "SUCCESS" ->
              /\ files' = [ files EXCEPT ![path] = size ]
              /\ history' = log_dual_history(history, download_id, FileType(mode),
                                             path, "SUCCESS", "PENDING")
              /\ handler' = [ pc |-> "downloaded", mode |-> mode,
                              download_id |-> download_id, file_path |-> path ]
         [] outcome \in {"FAILED", "ERROR"} ->
              /\ history' = log_dual_history(history, download_id, FileType(mode),
                                             "", outcome, "N/A")
              /\ UNCHANGED << files, handler >>
         [] OTHER ->
              UNCHANGED << files, history, handler >>
    /\ event' = Ev(op, next_id + 1, arg, NoReturn)
    /\ UNCHANGED << current_network_status, consecutive_failures, monitor, attempts >>

\* the fetch seen by its outcome only
Download(mode, outcome, path, size) ==
    DownloadAs("download", outcome, mode, outcome, path, size)

\* One run of download_mp3 / download_mp4, by what each step met: the exit code
\* of the metadata call, the answer of the quota check, the exit code of the
\* download, whether the downloaded file was found, the exit code of the
\* conversion (NotRun when a step was not reached or not needed) and whether
\* an exception was raised on the way.
NotRun == -1
Run(info_exit, quota, fetch_exit, found, convert_exit, raises) ==
    [ info_exit |-> info_exit, quota |-> quota, fetch_exit |-> fetch_exit,
      found |-> found, convert_exit |-> convert_exit, raises |-> raises ]
Runs ==
    { Run(0, TRUE, 0, TRUE, c, FALSE) : c \in {NotRun, 0, 1} }
       \cup { Run(1, FALSE, NotRun, FALSE, NotRun, FALSE),
              Run(0, FALSE, NotRun, FALSE, NotRun, FALSE),
              Run(0, TRUE, 1, FALSE, NotRun, FALSE),
              Run(0, TRUE, 0, FALSE, NotRun, FALSE),
              Run(0, TRUE, NotRun, FALSE, NotRun, TRUE) }

\* the download status the run records, "NONE" when it returns without a
\* record: the quota rejection and the missing file return at once, and the
\* exit code of the conversion is not looked at
RecordedOutcome(run) ==
    IF run.raises THEN "ERROR"
    ELSE IF run.info_exit # 0 THEN "FAILED"
    ELSE IF ~run.quota THEN "NONE"
    ELSE IF run.fetch_exit # 0 THEN "FAILED"
    ELSE IF ~run.found THEN "NONE"
    ELSE "SUCCESS"

\* the file the run leaves at the path it records: a failed conversion to mp3
\* has removed the temporary file and left no audio, a failed conversion to
\* mp4 leaves the video as it was fetched
FetchedSize(mode, run, size) ==
    IF mode = "mp3" /\ run.convert_exit \notin {NotRun, 0} THEN 0 ELSE size

\* what the fetch reports of one run
Fetched(run) ==
    [ run |-> run, recorded |-> RecordedOutcome(run),
      success |-> RecordedOutcome(run) = "SUCCESS" ]

\* download_mp3 / download_mp4 from the call to the return
DownloadFile(mode, run, path, size) ==
    DownloadAs("fetch", Fetched(run), mode, RecordedOutcome(run), path,
               FetchedSize(mode, run, size))

\* variant: the handler writes back the store as it read it before the upload
\* was awaited, so the retry counts stored meanwhile are undone
DeliveryOutcome_StaleRead(h, download_id, sent) ==
    [ k \in 1..Len(h) |->
        IF h[k].download_id = download_id
        THEN DownloadUpdatedEntry(h[k], IF sent THEN "SUCCESS" ELSE "FAILED")
        ELSE [ h[k] EXCEPT !.retry_count = 0 ] ]

\* the store after the delivery step of the handler learnt the send result
DeliveryOutcome(h, download_id, sent) ==
    update_upload_status_in_history(h, download_id,
                                    IF sent THEN "SUCCESS" ELSE "FAILED")

\* STEP 4 of handle_url_message up to its first await on an upload: a video
\* above max_size_mb goes to the splitter, or is turned down with a message
\* when the bot has no splitter; anything else is sent directly; a file that
\* cannot be opened makes the send return False at once.
Deliver ==
    /\ UNCHANGED << pvars, qvars, avars, mvars >>
    /\ raised' = raised
    /\ handler.pc = "downloaded"
    /\ IF handler.mode = "mp4" /\ check_file_needs_splitting(files, handler.file_path)
       THEN IF video_splitter
            THEN /\ handler' = [ handler EXCEPT !.pc = "splitting" ]
                 /\ history' = history
                 /\ event' = Ev("deliver", handler.download_id, "split", NoReturn)
            ELSE /\ handler' = HandlerIdle
                 /\ history' = history
                 /\ event' = Ev("deliver", handler.download_id, "rejected", NoReturn)
       ELSE IF CanOpen(files, handler.file_path)
       THEN /\ handler' = [ handler EXCEPT !.pc = "sending" ]
            /\ history' = history
            /\ event' = Ev("deliver", handler.download_id, "send", NoReturn)
       ELSE /\ handler' = HandlerIdle
            /\ history' = DeliveryOutcome(history, handler.download_id, FALSE)
            /\ event' = Ev("handler_update", handler.download_id, "FAILED", NoReturn)
    /\ UNCHANGED << files, next_id, current_network_status, consecutive_failures,
                    monitor, attempts >>

\* whether the handler deletes the file after a direct send
HandlerDeletesFile(mode, sent) == mode = "mp4" /\ sent

\* send_audio_with_retry / send_video_with_retry answered
DirectSendDone(sent) ==
    /\ UNCHANGED << pvars, qvars, avars, mvars >>
    /\ raised' = raised
    /\ handler.pc = "sending"
    /\ history' = DeliveryOutcome(history, handler.download_id, sent)
    /\ files' = IF HandlerDeletesFile(handler.mode, sent)
                THEN Remove(files, handler.file_path) ELSE files
    /\ handler' = HandlerIdle
    /\ event' = Ev("handler_update", handler.download_id,
                   IF sent THEN "SUCCESS" ELSE "FAILED", NoReturn)
    /\ UNCHANGED << next_id, current_network_status, consecutive_failures,
                    monitor, attempts >>

\* whether the handler deletes the original after handle_large_video returned
LargeVideoDeletesFile(split_success) == TRUE

\* handle_large_video returned: the record is marked and the original file is
\* removed
LargeVideoDone(split_success) ==
    /\ UNCHANGED << pvars, qvars, avars, mvars >>
    /\ raised' = raised
    /\ handler.pc = "splitting"
    /\ history' = DeliveryOutcome(history, handler.download_id, split_success)
    /\ files' = IF LargeVideoDeletesFile(split_success)
                THEN Remove(files, handler.file_path) ELSE files
    /\ handler' = HandlerIdle
    /\ event' = Ev("handler_update", handler.download_id,
                   IF split_success THEN "SUCCESS" ELSE "FAILED", NoReturn)
    /\ UNCHANGED << next_id, current_network_status, consecutive_failures,
                    monitor, attempts >>

----------------------------------------------------------------------------
(* Progress reporter: RealTimeProgressManager *)

\* the latest time.time() of a run, in half seconds
MaxTime == 3
\* the number of progress messages sendMessage creates in a run
MaxStarts == 2

\* percentage_diff >= 3.0
min_percentage_diff == 3
\* time_diff >= 1.5, in half seconds
min_time_diff == 3

Users == {101}
Tasks == {"t1", "t2"}
\* the polling task
Caller == "t1"
Percentages == {-5, 0, 1, 2, 3, 100, 150}
Statuses == {"Downloading..."}
\* speed and eta of one report; "" is None
Rates == { << "", "" >>, << "1.2MiB/s", "00:10" >> }
\* final_message of finish_progress; "" is None
FinalMessages == {""}

IdleCall == [pc |-> "idle", op |-> "", user |-> 0, percentage |-> 0, status |-> "",
             speed |-> "", eta |-> "", force |-> FALSE, current_time |-> 0,
             lock |-> 0, message_id |-> 0, chat_id |-> 0]

Clamp_UpperOnly(percentage) == IF percentage > 100 THEN 100 ELSE percentage

\* _create_progress_bar: the percentage the bar shows
Clamp(percentage) ==
    IF percentage > 100 THEN 100
    ELSE IF percentage < 0 THEN 0
    ELSE percentage

\* _format_progress_message: what the message shows of a report
Shown(percentage, status) == [percentage |-> Clamp(percentage), status |-> status]

Abs(x) == IF x < 0 THEN -x ELSE x

should_update_StrictStep(progress_data, percentage, status, force_update, current_time) ==
    \/ force_update
    \/ Abs(percentage - progress_data.last_percentage) > min_percentage_diff
    \/ current_time - progress_data.last_update >= min_time_diff
    \/ status # progress_data.last_status
    \/ percentage >= 100

\* update_progress: the throttling decision
should_update(progress_data, percentage, status, force_update, current_time) ==
    \/ force_update
    \/ Abs(percentage - progress_data.last_percentage) >= min_percentage_diff
    \/ current_time - progress_data.last_update >= min_time_diff
    \/ status # progress_data.last_status
    \/ percentage >= 100

\* del d[user_id]
Without(d, user_id) == [ u \in DOMAIN d \ {user_id} |-> d[u] ]

\* what the caller of update_progress does once the call returned or raised;
\* finish_progress goes to sleep, and message_id keeps the message its final
\* update has edited (0 when it edited none)
AfterUpdate(c, raises) ==
    IF c.op = "finish" /\ ~raises
    THEN [IdleCall EXCEPT !.pc = "fin_sleep", !.op = c.op, !.user = c.user,
                          !.message_id = c.message_id]
    ELSE IdleCall

\* the arguments of an update_progress call and what it returned so far
Report(c, result) ==
    [percentage |-> c.percentage, status |-> c.status, force |-> c.force,
     result |-> result]

\* update_progress from the point where the lock is taken
LockAcquired(t, c) ==
    /\ UNCHANGED << active_progress, update_lock, next_message_id, now >>
    /\ IF c.user \notin DOMAIN active_progress
       THEN \* KeyError, outside the try block
            /\ task' = [task EXCEPT ![t] = AfterUpdate(c, TRUE)]
            /\ locked' = locked \ {c.lock}
            /\ event' = Ev("update_raise", c.user, "KeyError", NoReturn)
            /\ UNCHANGED transmitted
       ELSE LET progress_data == active_progress[c.user] IN
            IF should_update(progress_data, c.percentage, c.status, c.force, now)
            THEN /\ task' = [task EXCEPT ![t] =
                        [c EXCEPT !.pc = "edit_post", !.current_time = now,
                                  !.force = FALSE,
                                  !.chat_id = progress_data.chat_id,
                                  !.message_id = progress_data.message_id]]
                 /\ locked' = locked \cup {c.lock}
                 /\ transmitted' = [transmitted EXCEPT ![c.user] =
                        [percentage |-> c.percentage, status |-> c.status, time |-> now]]
                 /\ event' = Ev("edit_post", c.user, Report(c, "pending"), NoReturn)
            ELSE /\ task' = [task EXCEPT ![t] = AfterUpdate(c, FALSE)]
                 /\ locked' = locked \ {c.lock}
                 /\ event' = Ev("update_suppressed", c.user, Report(c, "True"), NoReturn)
                 /\ UNCHANGED transmitted

\* update_progress from its first line
UpdateEntered(t, c) ==
    IF c.user \notin DOMAIN active_progress \/ c.user \notin DOMAIN update_lock
    THEN /\ task' = [task EXCEPT ![t] = AfterUpdate(c, FALSE)]
         /\ event' = Ev("update_rejected", c.user, "False", NoReturn)
         /\ UNCHANGED << active_progress, update_lock, locked,
                         next_message_id, now, transmitted >>
    ELSE IF update_lock[c.user] \in locked
    THEN /\ task' = [task EXCEPT ![t] =
                        [c EXCEPT !.pc = "waitlock", !.lock = update_lock[c.user]]]
         /\ event' = Ev("update_wait", c.user, c.op, NoReturn)
         /\ UNCHANGED << active_progress, update_lock, locked,
                         next_message_id, now, transmitted >>
    ELSE LockAcquired(t, [c EXCEPT !.lock = update_lock[c.user]])

\* start_progress up to the sendMessage request
StartProgress(t, chat_id, user_id) ==
    /\ task[t].pc = "idle"
    /\ next_message_id + Cardinality({ x \in Tasks : task[x].pc = "start_post" }) < MaxStarts
    /\ task' = [task EXCEPT ![t] = [IdleCall EXCEPT !.pc = "start_post", !.op = "start",
                                                    !.user = user_id, !.chat_id = chat_id]]
    /\ event' = Ev("start_post", user_id, "", NoReturn)
    /\ UNCHANGED << active_progress, update_lock, locked, next_message_id, now,
                    transmitted >>
    /\ UNCHANGED << hvars, qvars, avars, mvars >>

\* start_progress from the answer of sendMessage
StartResponse(t, ok) ==
    /\ task[t].pc = "start_post"
    /\ LET c == task[t]
           message_id == next_message_id + 1
       IN  /\ IF ok
              THEN /\ active_progress' =
                         (c.user :> [chat_id |-> c.chat_id, message_id |-> message_id,
                                     last_percentage |-> 0,
                                     last_status |-> "Initializing...",
                                     last_update |-> now, speed |-> "", eta |-> ""])
                         @@ active_progress
                   /\ update_lock' = (c.user :> message_id) @@ update_lock
                   /\ next_message_id' = message_id
                   /\ transmitted' =
                         (c.user :> [percentage |-> 0, status |-> "Initializing...",
                                     time |-> now])
                         @@ transmitted
              ELSE UNCHANGED << active_progress, update_lock, next_message_id,
                                transmitted >>
           /\ event' = Ev("start_done", c.user, IF ok THEN "message_id" ELSE "None", NoReturn)
    /\ task' = [task EXCEPT ![t] = IdleCall]
    /\ UNCHANGED << locked, now >>
    /\ UNCHANGED << hvars, qvars, avars, mvars >>

\* update_progress, called without speed and eta, up to its first suspension or its return
UpdateProgress(t, user_id, percentage, status, force_update) ==
    /\ task[t].pc = "idle"
    /\ UpdateEntered(t, [IdleCall EXCEPT !.op = "update", !.user = user_id,
                                         !.percentage = percentage, !.status = status,
                                         !.force = force_update])
    /\ UNCHANGED << hvars, qvars, avars, mvars >>

\* update_progress resumes with the lock it waited for
LockGranted(t) ==
    /\ task[t].pc = "waitlock"
    /\ task[t].lock \notin locked
    /\ LockAcquired(t, task[t])
    /\ UNCHANGED << hvars, qvars, avars, mvars >>

\* update_progress from the answer of editMessageText
EditResponse(t, ok) ==
    /\ task[t].pc = "edit_post"
    /\ LET c == task[t] IN
       /\ active_progress' =
             IF /\ ok
                /\ c.user \in DOMAIN active_progress
                /\ active_progress[c.user].message_id = c.message_id
             THEN [active_progress EXCEPT ![c.user] =
                     [@ EXCEPT !.last_percentage = c.percentage,
                               !.last_status = c.status,
                               !.last_update = c.current_time,
                               !.speed = c.speed,
                               !.eta = c.eta]]
             ELSE active_progress
       /\ locked' = locked \ {c.lock}
       /\ task' = [task EXCEPT ![t] = AfterUpdate(c, FALSE)]
       /\ event' = Ev("edit_done", c.user, IF ok THEN "True" ELSE "False", NoReturn)
    /\ UNCHANGED << update_lock, next_message_id, now, transmitted >>
    /\ UNCHANGED << hvars, qvars, avars, mvars >>

\* the percentage field of a progress signal
Num(n) == [kind |-> "num", val |-> n]
EmptyField == [kind |-> "empty", val |-> 0]
BadField == [kind |-> "bad", val |-> 0]

Signals ==
    { << status, Num(p), rate[1], rate[2] >> : status \in Statuses, p \in Percentages,
                                               rate \in Rates }
    \cup { << status, f, "", "" >> : status \in Statuses, f \in {EmptyField, BadField} }
    \cup { << "Getting video info..." >> }

\* progress_callback: the report it reads from a signal
ParseSignal(signal) ==
    IF Len(signal) >= 2
    THEN [raises |-> signal[2].kind = "bad",
          status |-> signal[1],
          percentage |-> IF signal[2].kind = "num" THEN signal[2].val ELSE 0,
          speed |-> IF Len(signal) > 2 THEN signal[3] ELSE "",
          eta |-> IF Len(signal) > 3 THEN signal[4] ELSE "",
          force |-> FALSE]
    ELSE [raises |-> FALSE, status |-> "Processing...", percentage |-> 0,
          speed |-> "", eta |-> "", force |-> FALSE]

\* the callback of get_progress_callback(user_id), up to its first suspension
ProgressCallback(t, user_id, signal) ==
    /\ task[t].pc = "idle"
    /\ LET r == ParseSignal(signal) IN
       IF ~r.raises
       THEN UpdateEntered(t, [IdleCall EXCEPT !.op = "update", !.user = user_id,
                                              !.percentage = r.percentage,
                                              !.status = r.status, !.speed = r.speed,
                                              !.eta = r.eta, !.force = FALSE])
       ELSE IF user_id \in DOMAIN active_progress
       THEN UpdateEntered(t, [IdleCall EXCEPT !.op = "update", !.user = user_id,
                                              !.percentage = 0,
                                              !.status = "Processing...",
                                              !.force = TRUE])
       ELSE /\ event' = Ev("callback_error", user_id, "", NoReturn)
            /\ UNCHANGED << pvars, qvars, avars, mvars >>
    /\ UNCHANGED << hvars, qvars, avars, mvars >>

FinalPercentage_Always100(success, last_percentage) == 100

\* finish_progress: the percentage of the final update
FinalPercentage(success, last_percentage) ==
    IF success THEN 100 ELSE last_percentage

\* finish_progress up to the first suspension of its final update
FinishProgress(t, user_id, success, final_message) ==
    /\ task[t].pc = "idle"
    /\ IF user_id \notin DOMAIN active_progress
       THEN /\ event' = Ev("finish_rejected", user_id, "False", NoReturn)
            /\ UNCHANGED << pvars, qvars, avars, mvars >>
       ELSE UpdateEntered(t, [IdleCall EXCEPT
                !.op = "finish", !.user = user_id,
                !.percentage = FinalPercentage(success,
                                   active_progress[user_id].last_percentage),
                !.status = IF final_message # "" THEN final_message
                           ELSE IF success THEN "Complete!" ELSE "Failed!",
                !.force = TRUE])
    /\ UNCHANGED << hvars, qvars, avars, mvars >>

\* cancel_progress up to the first suspension of its final update
CancelProgress(t, user_id) ==
    /\ task[t].pc = "idle"
    /\ IF user_id \notin DOMAIN active_progress
       THEN /\ event' = Ev("cancel_rejected", user_id, "False", NoReturn)
            /\ UNCHANGED << pvars, qvars, avars, mvars >>
       ELSE UpdateEntered(t, [IdleCall EXCEPT
                !.op = "finish", !.user = user_id,
                !.percentage = FinalPercentage(FALSE,
                                   active_progress[user_id].last_percentage),
                !.status = "Cancelled",
                !.force = TRUE])
    /\ UNCHANGED << hvars, qvars, avars, mvars >>

\* finish_progress after its sleep: the session and its lock are dropped
FinishCleanup(t) ==
    /\ task[t].pc = "fin_sleep"
    /\ active_progress' = Without(active_progress, task[t].user)
    /\ update_lock' = Without(update_lock, task[t].user)
    /\ transmitted' = Without(transmitted, task[t].user)
    /\ task' = [task EXCEPT ![t] = IdleCall]
    /\ event' = Ev("finish_done", task[t].user, "True", NoReturn)
    /\ UNCHANGED << locked, next_message_id, now >>
    /\ UNCHANGED << hvars, qvars, avars, mvars >>

\* time passes
Tick ==
    /\ now < MaxTime
    /\ now' = now + 1
    /\ event' = Ev("tick", 0, "", NoReturn)
    /\ UNCHANGED << active_progress, update_lock, locked, next_message_id, task,
                    transmitted >>
    /\ UNCHANGED << hvars, qvars, avars, mvars >>

----------------------------------------------------------------------------
(* Progress bar renderers *)

\* the inputs of a rendering run from -BarMargin to 100 + BarMargin
BarMargin == 50
BarPercentages == (0 - BarMargin)..(100 + BarMargin)
\* width of _create_progress_bar and length of create_progress_bar, with the defaults
BarWidths == {10, 20}

\* '▓' * filled + '░' * (width - filled); a negative repeat count gives no glyph
Glyphs(filled, width) ==
    [ i \in 1..((IF filled > 0 THEN filled ELSE 0)
                 + (IF width - filled > 0 THEN width - filled ELSE 0)) |->
        IF i <= filled THEN "filled" ELSE "empty" ]

\* int(x) of Python: rounds towards zero
TruncDiv(a, b) == IF a >= 0 THEN a \div b ELSE 0 - ((0 - a) \div b)

\* RealTimeProgressManager._create_progress_bar
ProgressManager_create_progress_bar(percentage, width) ==
    LET p == Clamp(percentage)
        filled == TruncDiv(p * width, 100)
    IN  [bar |-> Glyphs(filled, width), percentage |-> p]

\* VideoSplitter.create_progress_bar
create_progress_bar(percentage, length) ==
    LET p == Clamp(percentage)
        filled == TruncDiv(p * length, 100)
    IN  [bar |-> Glyphs(filled, length), percentage |-> p]

\* one call of a renderer
RenderProgressBar(renderer, percentage, width) ==
    /\ event' = Ev(renderer, width, percentage,
                   IF renderer = "_create_progress_bar"
                   THEN ProgressManager_create_progress_bar(percentage, width)
                   ELSE create_progress_bar(percentage, width))
    /\ UNCHANGED << hvars, pvars, qvars, avars, mvars >>

----------------------------------------------------------------------------
(* Daily quota: DownloadManager.check_daily_limit, update_usage and the quota
   check of download_mp3 / download_mp4.  Sizes are whole MB. *)

NoFetch == [user_id |-> 0, estimated_mb |-> 0]

\* sizes check_daily_limit is called with on its own
CheckedSizes == {0, 15, 20, 25, 100, 101}
\* duration in minutes of the media a request asks for, by kind
DurationMinutes(mode) == IF mode = "mp3" THEN {15, 25} ELSE {3, 5}
\* size of the fetched file
FetchedSizes == {30, 50}

\* the per-kind byte-rate heuristic: MB per minute
EstimatedMb(mode, duration_minutes) ==
    IF mode = "mp3" THEN duration_minutes * 1 ELSE duration_minutes * 5

\* the usage table once the user's record is one of the given day
ResetIfNewDay(usage, user_id, day) ==
    IF user_id \notin DOMAIN usage \/ usage[user_id].date # day
    THEN [ u \in DOMAIN usage \cup {user_id} |->
             IF u = user_id THEN [date |-> day, used_mb |-> 0] ELSE usage[u] ]
    ELSE usage

\* variant: a request that takes all that remains is refused
check_daily_limit_Strict(usage, user_id, size_mb, day) ==
    LET reset == ResetIfNewDay(usage, user_id, day)
        remaining == daily_limit_mb - reset[user_id].used_mb
    IN [ usage |-> reset, accepted |-> size_mb < remaining, remaining |-> remaining ]

\* check_daily_limit: the table it leaves and the pair it returns
check_daily_limit(usage, user_id, size_mb, day) ==
    LET reset == ResetIfNewDay(usage, user_id, day)
        remaining == daily_limit_mb - reset[user_id].used_mb
    IN [ usage |-> reset, accepted |-> size_mb <= remaining, remaining |-> remaining ]

\* update_usage: the table after size_mb has been added to the user's day
update_usage(usage, user_id, size_mb, day) ==
    LET reset == ResetIfNewDay(usage, user_id, day)
    IN [ reset EXCEPT ![user_id].used_mb = @ + size_mb ]

\* check_daily_limit called on its own
CheckDailyLimit(user_id, size_mb) ==
    LET r == check_daily_limit(user_usage, user_id, size_mb, today) IN
    /\ user_usage' = r.usage
    /\ event' = Ev("check_daily_limit", user_id, size_mb,
                   [accepted |-> r.accepted, remaining |-> r.remaining])
    /\ UNCHANGED << today, fetching, splitter, hvars, pvars, avars, mvars >>

\* download_mp3 / download_mp4 from the metadata to the start of the fetch:
\* the estimate is checked against the quota and a refused request returns
\* before the extraction tool is started
DownloadRequest(mode, user_id, duration_minutes) ==
    LET estimated_mb == EstimatedMb(mode, duration_minutes)
        r == check_daily_limit(user_usage, user_id, estimated_mb, today)
    IN
    /\ fetching = NoFetch
    /\ user_usage' = r.usage
    /\ fetching' = IF r.accepted
                   THEN [user_id |-> user_id, estimated_mb |-> estimated_mb]
                   ELSE NoFetch
    /\ event' = Ev("download_request", user_id, estimated_mb,
                   [accepted |-> r.accepted, remaining |-> r.remaining])
    /\ UNCHANGED << today, splitter, hvars, pvars, avars, mvars >>

\* the fetch (and conversion) is over: a file that arrived is measured and
\* charged to the user's day, a failed fetch charges nothing
FetchDone(ok, file_size_mb) ==
    /\ fetching # NoFetch
    /\ user_usage' = IF ok
                     THEN update_usage(user_usage, fetching.user_id, file_size_mb, today)
                     ELSE user_usage
    /\ fetching' = NoFetch
    /\ event' = Ev("fetch_done", fetching.user_id, IF ok THEN file_size_mb ELSE 0,
                   NoReturn)
    /\ UNCHANGED << today, splitter, hvars, pvars, avars, mvars >>

\* midnight passes
NewDay ==
    /\ today < MaxDays
    /\ today' = today + 1
    /\ event' = Ev("new_day", 0, "", NoReturn)
    /\ UNCHANGED << user_usage, fetching, splitter, hvars, pvars, avars, mvars >>

----------------------------------------------------------------------------
(* Large-video delivery: VideoSplitter.calculate_split_parts, split_video,
   send_split_parts and process_large_video.  Sizes are whole MB; times are
   exact fractions of seconds. *)

\* a time in seconds, num / den
Fr(num, den) == [num |-> num, den |-> den]
FrTimes(k, f) == Fr(k * f.num, f.den)
FrPlus(f, g) == Fr(f.num * g.den + g.num * f.den, f.den * g.den)
FrEq(f, g) == f.num * g.den = g.num * f.den

\* math.ceil of a / b for a >= 0, b > 0
Ceil(a, b) == (a + b - 1) \div b

\* size of the file handed to process_large_video
InputSizes == {40, 60, 120}
\* size of the file the compression leaves
CompressedSizes == {30, 45, 46, 100}
\* duration ffprobe reports, 0 when it fails
Durations == {0, 100, 600}

\* the files of the temp directory: the parts by number, and the compressed file
CompressedFile == 0

NoSplit == [pc |-> "idle", size |-> 0, duration |-> 0, num_parts |-> 0,
            duration_per_part |-> Fr(0, 1), parts |-> << >>, i |-> 0,
            successful |-> 0, failed |-> 0, sent |-> << >>, temp |-> {}]

\* variant: the number of parts is rounded down
calculate_split_parts_Floor(file_size_mb, duration_seconds) ==
    IF file_size_mb <= max_chunk_size_mb
    THEN [num_parts |-> 1, duration_per_part |-> Fr(duration_seconds, 1)]
    ELSE LET num_parts == file_size_mb \div max_chunk_size_mb
         IN [num_parts |-> num_parts,
             duration_per_part |-> Fr(duration_seconds, num_parts)]

\* calculate_split_parts: number of parts and duration of each
calculate_split_parts(file_size_mb, duration_seconds) ==
    IF file_size_mb <= max_chunk_size_mb
    THEN [num_parts |-> 1, duration_per_part |-> Fr(duration_seconds, 1)]
    ELSE LET num_parts == Ceil(file_size_mb, max_chunk_size_mb)
         IN [num_parts |-> num_parts,
             duration_per_part |-> Fr(duration_seconds, num_parts)]

\* the -ss and -t arguments of the transcoder for part i (0-based)
Segment(i, duration_per_part) ==
    [part |-> i + 1, start_time |-> FrTimes(i, duration_per_part),
     duration |-> duration_per_part]

\* the dict process_large_video returns
SplitResult(success, message, successful, failed) ==
    [returned |-> TRUE, success |-> success, message |-> message,
     successful |-> successful, failed |-> failed]

\* variant: a partial delivery is reported as a failure
LargeVideoResult_AllOrNothing(successful, failed, total_parts) ==
    IF successful = total_parts
    THEN SplitResult(TRUE, "all parts", successful, failed)
    ELSE SplitResult(FALSE, "no part", successful, failed)

\* process_large_video: the result from the counts of send_split_parts
LargeVideoResult(successful, failed, total_parts) ==
    IF successful = total_parts
    THEN SplitResult(TRUE, "all parts", successful, failed)
    ELSE IF successful > 0
    THEN SplitResult(TRUE, "partial", successful, failed)
    ELSE SplitResult(FALSE, "no part", successful, failed)

\* split_video from its entry to the first transcoder run: a file within the
\* ceiling is its own single part and goes straight to send_split_parts
SplitEntered(s, file_size_mb) ==
    LET c == calculate_split_parts(file_size_mb, s.duration) IN
    IF c.num_parts = 1
    THEN [ s EXCEPT !.pc = "sending", !.size = file_size_mb, !.num_parts = 1,
                    !.duration_per_part = c.duration_per_part,
                    !.parts = << [part |-> 1, start_time |-> Fr(0, 1),
                                  duration |-> c.duration_per_part] >>,
                    !.i = 1 ]
    ELSE [ s EXCEPT !.pc = "splitting", !.size = file_size_mb,
                    !.num_parts = c.num_parts,
                    !.duration_per_part = c.duration_per_part, !.i = 0 ]

\* process_large_video is called: a file within the ceiling is not compressed
ProcessLargeVideo(file_size_mb, duration_seconds) ==
    /\ splitter.pc = "idle"
    /\ LET s == [ NoSplit EXCEPT !.size = file_size_mb, !.duration = duration_seconds,
                                 !.temp = splitter.temp ]
       IN splitter' = IF file_size_mb <= max_chunk_size_mb
                      THEN SplitEntered(s, file_size_mb)
                      ELSE [ s EXCEPT !.pc = "compressing" ]
    /\ event' = Ev("process_large_video", 0, file_size_mb, NoReturn)
    /\ UNCHANGED << user_usage, today, fetching, hvars, pvars, avars, mvars >>

\* the compression is over: a result within the ceiling is sent as it is, a
\* larger one is split, and after a failure the original file is split
CompressDone(ok, compressed_size) ==
    /\ splitter.pc = "compressing"
    /\ splitter' =
         IF ~ok THEN SplitEntered(splitter, splitter.size)
         ELSE LET s == [ splitter EXCEPT !.temp = @ \cup {CompressedFile} ] IN
              IF compressed_size <= max_chunk_size_mb
              THEN [ s EXCEPT !.pc = "sending_compressed", !.size = compressed_size ]
              ELSE SplitEntered(s, compressed_size)
    /\ event' = Ev("compress_done", 0, IF ok THEN compressed_size ELSE 0, NoReturn)
    /\ UNCHANGED << user_usage, today, fetching, hvars, pvars, avars, mvars >>

\* the send of the compressed file answers
CompressedSendDone(success) ==
    /\ splitter.pc = "sending_compressed"
    /\ splitter' = [ NoSplit EXCEPT !.temp = splitter.temp \ {CompressedFile} ]
    /\ event' = Ev("send_compressed", 0, success,
                   IF success THEN SplitResult(TRUE, "compressed", 1, 0)
                   ELSE SplitResult(FALSE, "compressed", 0, 1))
    /\ UNCHANGED << user_usage, today, fetching, hvars, pvars, avars, mvars >>

\* variant: only the exit code of the transcoder is looked at
split_video_failed_ExitCodeOnly(outcome) == outcome = "nonzero"

\* split_video gives up on a non-zero exit, a missing part file or an exception
split_video_failed(outcome) == outcome \in {"nonzero", "missing", "exception"}

\* The transcoder run for part i+1 is over.  A non-zero exit, a missing output
\* file or an exception ends split_video with no parts, and process_large_video
\* returns at once; after the last part send_split_parts starts with part 1.
SplitPartDone(outcome) ==
    /\ splitter.pc = "splitting"
    /\ LET segment == Segment(splitter.i, splitter.duration_per_part) IN
       IF ~split_video_failed(outcome)
       THEN /\ splitter' =
                 [ splitter EXCEPT
                     !.parts = Append(@, segment),
                     !.temp = @ \cup {segment.part},
                     !.i = IF segment.part = splitter.num_parts THEN 1 ELSE @ + 1,
                     !.pc = IF segment.part = splitter.num_parts
                            THEN "sending" ELSE "splitting" ]
            /\ event' = Ev("split_part", segment.part,
                           [segment |-> segment, outcome |-> outcome], NoReturn)
       ELSE /\ splitter' = [ NoSplit EXCEPT
                               !.temp = IF outcome = "nonzero"
                                        THEN splitter.temp \cup {segment.part}
                                        ELSE splitter.temp ]
            /\ event' = Ev("split_failed", segment.part,
                           [segment |-> segment, outcome |-> outcome],
                           SplitResult(FALSE, "split failed", 0, 0))
    /\ UNCHANGED << user_usage, today, fetching, hvars, pvars, avars, mvars >>

\* The send of part i answers: a delivered part is counted and its file
\* removed, a refused one or an exception is counted as failed, and the loop
\* goes on.  After the last part the compressed file and the remaining part
\* files are removed and process_large_video returns.
SendPartDone(outcome) ==
    /\ splitter.pc = "sending"
    /\ LET part == splitter.parts[splitter.i]
           total_parts == Len(splitter.parts)
           successful == splitter.successful + IF outcome = "ok" THEN 1 ELSE 0
           failed == splitter.failed + IF outcome = "ok" THEN 0 ELSE 1
       IN IF splitter.i < total_parts
          THEN /\ splitter' =
                    [ splitter EXCEPT
                        !.i = @ + 1, !.successful = successful, !.failed = failed,
                        !.sent = Append(@, part.part),
                        !.temp = IF outcome = "ok" THEN @ \ {part.part} ELSE @ ]
               /\ event' = Ev("send_part", part.part,
                              [outcome |-> outcome, total_parts |-> total_parts,
                               sent |-> Append(splitter.sent, part.part)],
                              NoReturn)
          ELSE /\ splitter' =
                    [ NoSplit EXCEPT
                        !.temp = splitter.temp
                                   \ ({CompressedFile} \cup 1..total_parts) ]
               /\ event' = Ev("send_part", part.part,
                              [outcome |-> outcome, total_parts |-> total_parts,
                               sent |-> Append(splitter.sent, part.part)],
                              LargeVideoResult(successful, failed, total_parts))
    /\ UNCHANGED << user_usage, today, fetching, hvars, pvars, avars, mvars >>

----------------------------------------------------------------------------
(* Access control and session routing: DownloadBot.handle_message and the
   command handlers.  The polling task awaits every handler, so a handler
   runs from the update to its return before the next update is looked at. *)

\* the admin whose id the operator wrote into admin.txt
Operator == 100
\* the users who write to the bot
BotUsers == {100, 101, 102}
Modes == {"mp3", "mp4"}

is_admin(user_id) == user_id \in admin_ids
is_allowed(user_id) == user_id \in allowed_ids

\* variant: closing one session closes them all
clear_user_session_All(sessions, user_id) == [ u \in {} |-> "idle" ]

\* variant: nobody is turned away
has_access_Anyone(user_id) == user_id \in BotUsers

\* the access test of handle_message and of the mode commands
has_access(user_id) == is_admin(user_id) \/ is_allowed(user_id)

get_user_session(sessions, user_id) ==
    IF user_id \in DOMAIN sessions THEN sessions[user_id] ELSE "idle"

set_user_session(sessions, user_id, mode) ==
    [ u \in DOMAIN sessions \cup {user_id} |->
        IF u = user_id THEN mode ELSE sessions[u] ]

clear_user_session(sessions, user_id) ==
    [ u \in DOMAIN sessions \ {user_id} |-> sessions[u] ]

\* what a command handler leaves alone besides the variables it names
\* the polling loop awaits the handler of one update before it takes the next:
\* an update is handled only when the polling task is in no handler and in no
\* call of the progress manager
Polled == handler.pc = "idle" /\ task[Caller].pc = "idle"

\* what an admin command reports: the user it names and how it ended
Target(target_user_id, outcome) ==
    [ target |-> target_user_id, outcome |-> outcome ]

BotFrame == UNCHANGED << hvars, pvars, qvars, mvars >>

\* /start: the session is replaced by an idle one, whoever sends it
StartCommand(user_id) ==
    /\ Polled
    /\ user_sessions' = set_user_session(user_sessions, user_id, "idle")
    /\ event' = Ev("/start", user_id, "", NoReturn)
    /\ UNCHANGED << admin_ids, allowed_ids >>
    /\ BotFrame

\* /mp3 and /mp4
ModeCommand(user_id, mode) ==
    /\ Polled
    /\ IF ~has_access(user_id)
       THEN /\ event' = Ev("/" \o mode, user_id, "no access", NoReturn)
            /\ UNCHANGED user_sessions
       ELSE /\ user_sessions' = set_user_session(user_sessions, user_id, mode)
            /\ event' = Ev("/" \o mode, user_id, "mode set", NoReturn)
    /\ UNCHANGED << admin_ids, allowed_ids >>
    /\ BotFrame

\* a message that is a URL: handle_message checks the access, handle_url_message
\* the mode and the URL; past these the download pipeline is started
UrlMessage(user_id, valid) ==
    /\ Polled
    /\ event' = Ev("url", user_id,
                   IF ~has_access(user_id) THEN "no access"
                   ELSE IF get_user_session(user_sessions, user_id) = "idle"
                        THEN "no mode"
                   ELSE IF ~valid THEN "bad url"
                   ELSE "pipeline started",
                   NoReturn)
    /\ UNCHANGED << avars, mvars >>
    /\ BotFrame

\* /approve <target> and the approve button of the access request
ApproveCommand(user_id, target_user_id) ==
    /\ Polled
    /\ IF ~is_admin(user_id)
       THEN /\ event' = Ev("/approve", user_id, Target(target_user_id, "not admin"), NoReturn)
            /\ UNCHANGED allowed_ids
       ELSE /\ allowed_ids' = allowed_ids \cup {target_user_id}
            /\ event' = Ev("/approve", user_id, Target(target_user_id, "done"), NoReturn)
    /\ UNCHANGED << admin_ids, user_sessions >>
    /\ BotFrame

\* /addadmin <target>
AddAdminCommand(user_id, target_user_id) ==
    /\ Polled
    /\ IF ~is_admin(user_id)
       THEN /\ event' = Ev("/addadmin", user_id, Target(target_user_id, "not admin"), NoReturn)
            /\ UNCHANGED admin_ids
       ELSE /\ admin_ids' = admin_ids \cup {target_user_id}
            /\ event' = Ev("/addadmin", user_id, Target(target_user_id, "done"), NoReturn)
    /\ UNCHANGED << allowed_ids, user_sessions >>
    /\ BotFrame

\* cancel_progress run to its return by a command handler: the final edit is
\* sent and, whatever its answer, the session and its lock are dropped.  No
\* other task calls the progress manager while the handler is suspended.
CancelIfActive(user_id) ==
    /\ active_progress' = Without(active_progress, user_id)
    /\ update_lock' = Without(update_lock, user_id)
    /\ transmitted' = Without(transmitted, user_id)
    /\ UNCHANGED << locked, next_message_id, now, task >>

\* the final update cancel_progress sends for a live session: a finish flagged
\* as a failure, with the status "Cancelled"
NoFinal == [ sent |-> FALSE, status |-> "", percentage |-> 0 ]
CancelFinal(progress, user_id) ==
    IF user_id \in DOMAIN progress
    THEN [ sent |-> TRUE, status |-> "Cancelled",
           percentage |-> FinalPercentage(FALSE, progress[user_id].last_percentage) ]
    ELSE NoFinal

\* what /close reports: how it ended and the final progress update it sent
Closed(outcome, final) == [ outcome |-> outcome, final |-> final ]

\* /kick <target>: a target on the allowed list is taken off it, its progress
\* session is cancelled and its session cleared
KickCommand(user_id, target_user_id) ==
    /\ Polled
    /\ IF ~is_admin(user_id)
       THEN /\ event' = Ev("/kick", user_id, Target(target_user_id, "not admin"), NoReturn)
            /\ UNCHANGED << allowed_ids, user_sessions, pvars >>
       ELSE IF ~is_allowed(target_user_id)
       THEN /\ event' = Ev("/kick", user_id, Target(target_user_id, "not found"), NoReturn)
            /\ UNCHANGED << allowed_ids, user_sessions, pvars >>
       ELSE /\ allowed_ids' = allowed_ids \ {target_user_id}
            /\ CancelIfActive(target_user_id)
            /\ user_sessions' = clear_user_session(user_sessions, target_user_id)
            /\ event' = Ev("/kick", user_id, Target(target_user_id, "done"), NoReturn)
    /\ UNCHANGED admin_ids
    /\ UNCHANGED << hvars, qvars, mvars >>

\* /close: a user with access and a mode has the progress session cancelled
\* and the session cleared
CloseCommand(user_id) ==
    /\ Polled
    /\ IF ~has_access(user_id)
       THEN /\ event' = Ev("/close", user_id, Closed("no access", NoFinal), NoReturn)
            /\ UNCHANGED << user_sessions, pvars >>
       ELSE IF get_user_session(user_sessions, user_id) = "idle"
       THEN /\ event' = Ev("/close", user_id, Closed("no session", NoFinal), NoReturn)
            /\ UNCHANGED << user_sessions, pvars >>
       ELSE /\ CancelIfActive(user_id)
            /\ user_sessions' = clear_user_session(user_sessions, user_id)
            /\ event' = Ev("/close", user_id,
                           Closed("closed", CancelFinal(active_progress, user_id)),
                           NoReturn)
    /\ UNCHANGED << admin_ids, allowed_ids >>
    /\ UNCHANGED << hvars, qvars, mvars >>

\* clear_history_json: the store is rewritten as the empty list and the number
\* of records it held is returned
clear_history_json(h) == [ history |-> << >>, count |-> Len(h) ]

\* the names bound in the module namespace of menu_utama.py: the module imports
\* download only inside handle_url_message, as a local of that function
ModuleGlobals == {"asyncio", "aiohttp", "json", "logging", "os", "sys", "time"}

\* what /clearhistory answers
Cleared(outcome, count) == [ outcome |-> outcome, count |-> count ]

\* /clearhistory: an admin's command evaluates download.clear_history_json();
\* the lookup of the name raises NameError, which the handler's last except
\* clause turns into an error message
ClearHistoryCommand(user_id) ==
    /\ Polled
    /\ IF ~is_admin(user_id)
       THEN /\ event' = Ev("/clearhistory", user_id, Cleared("not admin", 0), NoReturn)
            /\ UNCHANGED history
       ELSE IF "download" \notin ModuleGlobals
       THEN /\ event' = Ev("/clearhistory", user_id, Cleared("error", 0), NoReturn)
            /\ UNCHANGED history
       ELSE /\ history' = clear_history_json(history).history
            /\ event' = Ev("/clearhistory", user_id,
                           Cleared(IF clear_history_json(history).count > 0
                                   THEN "cleared" ELSE "empty",
                                   clear_history_json(history).count),
                           NoReturn)
    /\ UNCHANGED << files, next_id, current_network_status, consecutive_failures,
                    handler, monitor, attempts, raised >>
    /\ UNCHANGED << pvars, qvars, avars, mvars >>

----------------------------------------------------------------------------
(* History Store under faults *)

\* what can go wrong in one operation on download_history.json: the file
\* cannot be read or parsed, it cannot be opened for writing, or the write
\* fails after open(..., 'w') has truncated it
Faults == {"none", "read", "open", "write"}

\* a file whose content json.load does not accept
Unparsable == << NewEntry(0, "", "", "UNPARSABLE", "") >>
IsUnparsable(h) == Len(h) > 0 /\ h[1].download_status = "UNPARSABLE"

\* json.load raises
ReadFails(h, fault) == IsUnparsable(h) \/ fault = "read"

\* the with open(..., 'w') ... json.dump block: the store it leaves and
\* whether it raised
WriteBack(h, new, fault) ==
    IF fault = "open" THEN [ store |-> h, raised |-> TRUE ]
    ELSE IF fault = "write" THEN [ store |-> Unparsable, raised |-> TRUE ]
    ELSE [ store |-> new, raised |-> FALSE ]

\* the outcome of one operation: the store, the value returned, and whether
\* an exception left the operation
Outcome(store, ret, raises) == [ store |-> store, ret |-> ret, raised |-> raises ]

\* try: ... except Exception: return default
Caught(written, ret, default) ==
    Outcome(written.store, IF written.raised THEN default ELSE ret, FALSE)

\* log_dual_history, the JSON half
Recorded(h, entry, fault) ==
    IF ReadFails(h, fault) THEN Outcome(h, 0, FALSE)
    ELSE Caught(WriteBack(h, Append(h, entry), fault), 0, 0)

\* RetryManager.update_upload_status_in_history: written back only if an
\* entry matched
RetryUpdated(h, download_id, status, fault) ==
    IF ReadFails(h, fault) THEN Outcome(h, 0, FALSE)
    ELSE IF FirstMatch(h, download_id) = 0 THEN Outcome(h, 0, FALSE)
    ELSE Caught(WriteBack(h, RetryManager_update_upload_status_in_history(
                                h, download_id, status), fault), 0, 0)

\* download.update_upload_status_in_history: written back in any case
HandlerUpdated(h, download_id, status, fault) ==
    IF ReadFails(h, fault) THEN Outcome(h, 0, FALSE)
    ELSE Caught(WriteBack(h, update_upload_status_in_history(h, download_id, status),
                          fault), 0, 0)

\* download.clear_history_json
ClearedStore(h, fault) ==
    IF ReadFails(h, fault) THEN Outcome(h, 0, FALSE)
    ELSE Caught(WriteBack(h, clear_history_json(h).history, fault),
                clear_history_json(h).count, 0)

\* RetryManager.get_failed_uploads_from_history
Listed(h, f, fault) ==
    IF ReadFails(h, fault) THEN Outcome(h, << >>, FALSE)
    ELSE Outcome(h, get_failed_uploads_from_history(h, f), FALSE)

\* what an operation on the store reports
StoreEvent(fault, outcome) ==
    [ fault |-> fault, ret |-> outcome.ret, raised |-> outcome.raised ]

\* one operation on the store, from the call to the return
StoreStep(op, id, fault, outcome) ==
    /\ history' = outcome.store
    /\ event' = Ev(op, id, StoreEvent(fault, outcome), NoReturn)
    /\ UNCHANGED << current_network_status, consecutive_failures, handler, monitor,
                    attempts, raised >>
    /\ UNCHANGED << pvars, qvars, avars, mvars >>

\* a fetch that succeeded records itself
StoreRecord(path, fault) ==
    /\ next_id < MaxDownloads
    /\ next_id' = next_id + 1
    /\ files' = [ files EXCEPT ![path] = 40 ]
    /\ StoreStep("record", next_id + 1, fault,
                 Recorded(history, NewEntry(next_id + 1, "MP3", path, "SUCCESS", "PENDING"),
                          fault))

\* the retry engine or the request handler stores the outcome of an upload
StoreUpdate(caller, download_id, status, fault) ==
    /\ (caller = "retry_update" /\ status = "FAILED") =>
          \A k \in 1..Len(history) : history[k].retry_count < MaxFailures
    /\ UNCHANGED << next_id, files >>
    /\ StoreStep(caller, download_id, fault,
                 IF caller = "retry_update"
                 THEN RetryUpdated(history, download_id, status, fault)
                 ELSE HandlerUpdated(history, download_id, status, fault))

\* clear_history_json is called
StoreClear(fault) ==
    /\ UNCHANGED << next_id, files >>
    /\ StoreStep("clear", 0, fault, ClearedStore(history, fault))

\* the retry engine lists the records it may retry
StoreList(fault) ==
    /\ UNCHANGED << next_id, files >>
    /\ StoreStep("list", 0, fault, Listed(history, files, fault))

\* the file is damaged from outside the program
StoreDamaged ==
    /\ ~IsUnparsable(history)
    /\ UNCHANGED << next_id, files >>
    /\ StoreStep("damaged", 0, "none", Outcome(Unparsable, 0, FALSE))

----------------------------------------------------------------------------
(* The pipeline of one URL message and the exception boundaries *)

\* the handler of a URL message at one of its suspension points
Pipeline(pc, user_id, mode) ==
    [ pc |-> pc, mode |-> mode, download_id |-> 0, file_path |-> "", user |-> user_id ]

\* variant: the exception leaves handle_update and ends the polling loop
handle_update_Propagates(raises) ==
    IF raises THEN [ HandlerIdle EXCEPT !.pc = "stopped" ] ELSE HandlerIdle

\* handle_update: the polling task after the handler of one update, whether it
\* returned or raised; the exception is logged and the loop goes on
handle_update(raises) == HandlerIdle

\* finish_progress under is_active, run to its return: the session and its
\* lock are dropped, an absent session is left alone
FinishIfActive(user_id) == CancelIfActive(user_id)

\* handle_url_message from the mode check up to the fetch: the progress session
\* is started; sendMessage may fail, and the fetch then runs without a session
PipelineStart(user_id, ok) ==
    /\ Polled
    /\ has_access(user_id)
    /\ get_user_session(user_sessions, user_id) \in Modes
    /\ next_message_id < MaxStarts
    /\ handler' = Pipeline("fetching", user_id, get_user_session(user_sessions, user_id))
    /\ IF ok
       THEN /\ active_progress' =
                  (user_id :> [chat_id |-> user_id, message_id |-> next_message_id + 1,
                               last_percentage |-> 0, last_status |-> "Initializing...",
                               last_update |-> now, speed |-> "", eta |-> ""])
                  @@ active_progress
            /\ update_lock' = (user_id :> next_message_id + 1) @@ update_lock
            /\ next_message_id' = next_message_id + 1
            /\ transmitted' =
                  (user_id :> [percentage |-> 0, status |-> "Initializing...",
                               time |-> now])
                  @@ transmitted
       ELSE UNCHANGED << active_progress, update_lock, next_message_id, transmitted >>
    /\ event' = Ev("pipeline_start", user_id, IF ok THEN "session" ELSE "fallback", NoReturn)
    /\ UNCHANGED << locked, now, task >>
    /\ UNCHANGED << history, files, next_id, current_network_status,
                    consecutive_failures, monitor, attempts, raised >>
    /\ UNCHANGED << qvars, avars, mvars >>

\* the pipeline leaves handle_url_message: by its return, after the session
\* was finished under is_active, or by an exception raised inside the try,
\* whose except clause finishes the session under is_active
PipelineEnds(raises) ==
    /\ handler.pc = "fetching"
    /\ FinishIfActive(handler.user)
    /\ handler' = handle_update(raises)
    /\ event' = Ev(IF raises THEN "pipeline_raised" ELSE "pipeline_done", handler.user,
                   IF handler.user \in DOMAIN active_progress THEN "session" ELSE "fallback",
                   NoReturn)
    /\ UNCHANGED << history, files, next_id, current_network_status,
                    consecutive_failures, monitor, attempts, raised >>
    /\ UNCHANGED << qvars, avars, mvars >>

\* the handler of some other update raises: handle_update logs the exception
UpdateRaises(user_id) ==
    /\ Polled
    /\ handler' = handle_update(TRUE)
    /\ event' = Ev("update_raised", user_id, "", NoReturn)
    /\ UNCHANGED << history, files, next_id, current_network_status,
                    consecutive_failures, monitor, attempts, raised >>
    /\ UNCHANGED << pvars, qvars, avars, mvars >>

----------------------------------------------------------------------------
(* RetryManager: the start_monitoring calls and the HTTP session they share
   with send_file_telegram *)

\* most records one retry pass of a monitoring call finds in its snapshot
MaxBatch == 2

\* the start_monitoring calls of one behaviour
Loops == {"m1", "m2"}
\* a call that has not been made, or has returned
NotStarted == [pc |-> "none", left |-> 0]

\* self.session = None
NoSession == [total |-> 0, connect |-> 0, closed |-> FALSE]
\* aiohttp.ClientTimeout(total=20, connect=10) of ping_telegram_api
ProbeTimeout == [total |-> 20, connect |-> 10, closed |-> FALSE]
\* aiohttp.ClientTimeout(total=120, connect=30) of send_file_telegram
UploadTimeout == [total |-> 120, connect |-> 30, closed |-> FALSE]

\* `if not self.session: self.session = aiohttp.ClientSession(timeout=timeout)`
open_session(s, timeout) == IF s = NoSession THEN timeout ELSE s

\* `if self.session: await self.session.close()` in the finally clause of
\* start_monitoring: the object stays in self.session, closed
close_session(s) == IF s = NoSession THEN s ELSE [ s EXCEPT !.closed = TRUE ]

\* a step of a monitoring call: whether it put an upload in flight, and the
\* session the request it started runs on
LoopEv(op, l, started, s) ==
    Ev(op, 0, [loop |-> l, started |-> started, session |-> s], NoReturn)

\* the uploads of retry passes that are in flight
UploadsInFlight == { l \in Loops : loops[l].pc = "sending" }
\* the monitoring calls that have not returned
LoopsRunning == { l \in Loops : loops[l].pc # "none" }

\* the for loop of retry_failed_uploads moves on: the next record is sent
\* (a request on a closed session raises at once and is counted failed),
\* after the last one the call is back in start_monitoring, asleep
NextUpload(l, s) ==
    IF loops[l].left > 0 /\ ~s.closed
    THEN [pc |-> "sending", left |-> loops[l].left - 1]
    ELSE [pc |-> "sleep", left |-> 0]

MonitorFrame == UNCHANGED << pvars, qvars, avars, history, files, next_id, handler,
                             monitor, attempts, raised, video_splitter >>

\* start_monitoring is called: it returns at once when is_monitoring is set,
\* else it sets the flag and its first ping_telegram_api opens the session
\* if there is none and sends the GET
StartMonitoring(l) ==
    /\ loops[l].pc = "none"
    /\ IF is_monitoring
       THEN /\ event' = LoopEv("already_running", l, FALSE, session)
            /\ UNCHANGED mvars
       ELSE /\ is_monitoring' = TRUE
            /\ session' = open_session(session, ProbeTimeout)
            /\ loops' = [ loops EXCEPT ![l] = [pc |-> "probe", left |-> 0] ]
            /\ event' = LoopEv("start_monitoring", l, FALSE, session')
    /\ UNCHANGED << current_network_status, consecutive_failures >>
    /\ MonitorFrame

\* the GET of a monitoring call is answered: update_network_status stores the
\* classification, and a GOOD one goes straight into retry_failed_uploads,
\* which sends the first of the n records of its snapshot
ProbeAnswered(l, probe, n) ==
    LET status == IF session.closed THEN "offline" ELSE ping_telegram_api(probe)
        pass == status = "good" /\ n > 0
    IN
    /\ loops[l].pc = "probe"
    /\ status = "offline" => consecutive_failures < MaxFailures
    /\ current_network_status' = status
    /\ consecutive_failures' = NextFailures(status, consecutive_failures)
    /\ session' = IF pass THEN open_session(session, UploadTimeout) ELSE session
    /\ loops' = [ loops EXCEPT ![l] = IF pass
                                      THEN [pc |-> "sending", left |-> n - 1]
                                      ELSE [pc |-> "sleep", left |-> 0] ]
    /\ event' = LoopEv("probe_answered", l, pass, session')
    /\ UNCHANGED is_monitoring
    /\ MonitorFrame

\* send_file_telegram of a retry pass returns: after a success the pass sleeps
\* two seconds, after a failure it goes on with the next record
UploadDone(l, success) ==
    /\ loops[l].pc = "sending"
    /\ loops' = [ loops EXCEPT ![l] = IF success
                                      THEN [pc |-> "delay", left |-> loops[l].left]
                                      ELSE NextUpload(l, session) ]
    /\ event' = LoopEv("upload_done", l, ~success /\ loops'[l].pc = "sending", session)
    /\ UNCHANGED << is_monitoring, session, current_network_status,
                    consecutive_failures >>
    /\ MonitorFrame

\* asyncio.sleep(2) after a successful retry ends
DelayDone(l) ==
    /\ loops[l].pc = "delay"
    /\ loops' = [ loops EXCEPT ![l] = NextUpload(l, session) ]
    /\ event' = LoopEv("delay_done", l, loops'[l].pc = "sending", session)
    /\ UNCHANGED << is_monitoring, session, current_network_status,
                    consecutive_failures >>
    /\ MonitorFrame

\* asyncio.sleep(ping_interval) ends: `while self.is_monitoring` either starts
\* the next probe or leaves the loop, and the finally clause clears the flag
\* and closes the session
SleepDone(l) ==
    /\ loops[l].pc = "sleep"
    /\ IF is_monitoring
       THEN /\ session' = open_session(session, ProbeTimeout)
            /\ loops' = [ loops EXCEPT ![l] = [pc |-> "probe", left |-> 0] ]
            /\ event' = LoopEv("next_cycle", l, FALSE, session')
            /\ UNCHANGED is_monitoring
       ELSE /\ is_monitoring' = FALSE
            /\ session' = close_session(session)
            /\ loops' = [ loops EXCEPT ![l] = NotStarted ]
            /\ event' = LoopEv("loop_ended", l, FALSE, session')
    /\ UNCHANGED << current_network_status, consecutive_failures >>
    /\ MonitorFrame

\* stop_monitoring: the flag is cleared, the loop sees it after its sleep
StopMonitoring ==
    /\ is_monitoring
    /\ is_monitoring' = FALSE
    /\ event' = Ev("stop_monitoring", 0, "", NoReturn)
    /\ UNCHANGED << loops, session, current_network_status, consecutive_failures >>
    /\ MonitorFrame

\* send_audio_with_retry, send_video_with_retry: the first delivery of the
\* request handler calls send_file_telegram, which opens the session if there
\* is none and posts the file
SendFileTelegram ==
    /\ session' = open_session(session, UploadTimeout)
    /\ event' = LoopEv("send_file_telegram", "handler", ~session'.closed, session')
    /\ UNCHANGED << is_monitoring, loops, current_network_status,
                    consecutive_failures >>
    /\ MonitorFrame

----------------------------------------------------------------------------
(* The progress signal from the pipeline to the callback of the reporter *)

\* percentages, speeds and ETAs the pipeline reads from a tool's output; ""
\* is None (the line had no `at <speed>` or no `ETA <time>`)
ReadPercentages == {0, 1, 5, 10, 25, 33, 50, 66, 75, 90, 99, 100}
ReadSpeeds == {"", "1.2MiB/s", "500KiB/s"}
ReadEtas == {"", "00:10", "01:30"}
Phases == {"Converting to MP3", "Converting to MP4"}

\* a report of the pipeline before it is written as a signal
Reading(status, percentage, speed, eta) ==
    [status |-> status, percentage |-> percentage, speed |-> speed, eta |-> eta]

\* `{speed}` / `{eta}` inside an f-string: None is written as the text None
FormatOptional(x) == IF x = "" THEN "None" ELSE x

\* monitor_yt_dlp_progress: f"{status}|{percentage}|{speed}|{eta}", by field
YtDlpSignal(r) ==
    << r.status, Num(r.percentage), FormatOptional(r.speed), FormatOptional(r.eta) >>

\* monitor_ffmpeg_progress: f"{phase_name}|{percent}||", by field
FfmpegSignal(r) == << r.status, Num(r.percentage), "", "" >>

\* a signal is emitted and the callback parses it: the report, the signal and
\* what the callback hands to update_progress
SignalEv(r, signal) ==
    Ev("signal", 0, [report |-> r, signal |-> signal, parsed |-> ParseSignal(signal)],
       NoReturn)

\* a `[download] ...%` line of yt-dlp is read and reported
YtDlpProgress(percentage, speed, eta) ==
    LET r == Reading("Downloading...", percentage, speed, eta) IN
    /\ event' = SignalEv(r, YtDlpSignal(r))
    /\ UNCHANGED << hvars, pvars, qvars, avars, mvars >>

\* a `time=` line of FFmpeg is read and reported
FfmpegProgress(phase_name, percent) ==
    LET r == Reading(phase_name, percent, "", "") IN
    /\ event' = SignalEv(r, FfmpegSignal(r))
    /\ UNCHANGED << hvars, pvars, qvars, avars, mvars >>

----------------------------------------------------------------------------
(* DownloadBot.start: the optional video splitter *)

\* init_video_splitter raised in start() (split.py missing, temp directory not
\* creatable): the bot runs without a splitter
SplitterInitFails ==
    /\ video_splitter
    /\ next_id = 0
    /\ handler.pc = "idle"
    /\ video_splitter' = FALSE
    /\ event' = Ev("start", 0, "no splitter", NoReturn)
    /\ UNCHANGED << hvars, pvars, qvars, avars, is_monitoring, loops, session >>

\* the steps of handle_url_message after the fetch
DeliveryStep ==
    \/ Deliver
    \/ \E sent \in BOOLEAN : DirectSendDone(sent)
    \/ \E split_success \in BOOLEAN : LargeVideoDone(split_success)

----------------------------------------------------------------------------
(* Specifications *)

Init ==
    /\ history = << >>
    /\ files = [ p \in Paths |-> 0 ]
    /\ next_id = 0
    /\ current_network_status = "offline"
    /\ consecutive_failures = 0
    /\ handler = HandlerIdle
    /\ monitor = MonitorIdle
    /\ attempts = [ d \in Ids |-> 0 ]
    /\ raised = 0
    /\ event = NoEvent
    /\ active_progress = [ u \in {} |-> 0 ]
    /\ update_lock = [ u \in {} |-> 0 ]
    /\ locked = {}
    /\ next_message_id = 0
    /\ now = 0
    /\ task = [ t \in Tasks |-> IdleCall ]
    /\ transmitted = [ u \in {} |-> 0 ]
    /\ user_usage = [ u \in {} |-> 0 ]
    /\ today = 0
    /\ fetching = NoFetch
    /\ splitter = NoSplit
    /\ admin_ids = {Operator}
    /\ allowed_ids = {}
    /\ user_sessions = [ u \in {} |-> "idle" ]
    /\ is_monitoring = FALSE
    /\ loops = [ l \in Loops |-> NotStarted ]
    /\ session = NoSession
    /\ video_splitter = TRUE

Next ==
    \/ \E probe \in MainProbes : MonitorCycle(probe)
    \/ \E success \in BOOLEAN : SendFileDone(success)
    \/ RetryDelayDone
    \/ \E mode \in {"mp3", "mp4"}, outcome \in {"SUCCESS", "FAILED", "ERROR", "NONE"} :
          \E path \in PathsOf(mode), size \in SizesOf(mode) :
             Download(mode, outcome, path, size)
    \/ Deliver
    \/ \E sent \in BOOLEAN : DirectSendDone(sent)
    \/ \E split_success \in BOOLEAN : LargeVideoDone(split_success)

\* the bot as wired: polling task and monitoring loop
Spec == Init /\ [][Next]_vars

\* the same, with retry_failed_uploads also called outside the loop's GOOD branch
NextApi == Next \/ RetryFailedUploads

SpecApi == Init /\ [][NextApi]_vars

\* the bot as wired, with exceptions escaping the try body of the retry loop
NextExc == Next \/ RetryRaises

SpecExc == Init /\ [][NextExc]_vars

\* the monitoring loop alone, with every kind of probe answer
NextProbe == \E probe \in Probes : MonitorCycle(probe)

SpecProbe == Init /\ [][NextProbe]_vars

\* the progress reporter as the bot calls it: the polling task awaits every handler, so
\* one task makes all the calls and none of them waits for the lock
NextProgress ==
    \/ \E user_id \in Users : StartProgress(Caller, user_id, user_id)
    \/ \E ok \in BOOLEAN : StartResponse(Caller, ok)
    \/ \E user_id \in Users, percentage \in Percentages, status \in Statuses,
          force_update \in BOOLEAN :
          UpdateProgress(Caller, user_id, percentage, status, force_update)
    \/ \E ok \in BOOLEAN : EditResponse(Caller, ok)
    \/ \E user_id \in Users, signal \in Signals :
          ProgressCallback(Caller, user_id, signal)
    \/ \E user_id \in Users, success \in BOOLEAN, final_message \in FinalMessages :
          FinishProgress(Caller, user_id, success, final_message)
    \/ \E user_id \in Users : CancelProgress(Caller, user_id)
    \/ FinishCleanup(Caller)
    \/ Tick

SpecProgress == Init /\ [][NextProgress]_vars

\* the progress reporter under calls from two tasks, which contend for the lock
NextTasks ==
    \/ \E t \in Tasks, user_id \in Users : StartProgress(t, user_id, user_id)
    \/ \E t \in Tasks, ok \in BOOLEAN : StartResponse(t, ok)
    \/ \E t \in Tasks, user_id \in Users, percentage \in {0, 3}, status \in Statuses,
          force_update \in BOOLEAN :
          UpdateProgress(t, user_id, percentage, status, force_update)
    \/ \E t \in Tasks : LockGranted(t)
    \/ \E t \in Tasks, ok \in BOOLEAN : EditResponse(t, ok)
    \/ \E t \in Tasks, user_id \in Users, success \in BOOLEAN :
          FinishProgress(t, user_id, success, "")
    \/ \E t \in Tasks, user_id \in Users : CancelProgress(t, user_id)
    \/ \E t \in Tasks : FinishCleanup(t)
    \/ Tick

SpecTasks == Init /\ [][NextTasks]_vars

\* the two progress bar renderers, called with any percentage
NextBar ==
    \E renderer \in {"_create_progress_bar", "create_progress_bar"},
       percentage \in BarPercentages, width \in BarWidths :
       RenderProgressBar(renderer, percentage, width)

SpecBar == Init /\ [][NextBar]_vars

\* the quota as the download pipeline uses it, one request at a time
NextQuota ==
    \/ \E user_id \in Users, size_mb \in CheckedSizes : CheckDailyLimit(user_id, size_mb)
    \/ \E mode \in {"mp3", "mp4"}, user_id \in Users :
          \E duration_minutes \in DurationMinutes(mode) :
             DownloadRequest(mode, user_id, duration_minutes)
    \/ \E ok \in BOOLEAN, file_size_mb \in FetchedSizes : FetchDone(ok, file_size_mb)
    \/ NewDay

SpecQuota == Init /\ [][NextQuota]_vars

\* the large-video delivery, one video at a time
NextSplit ==
    \/ \E file_size_mb \in InputSizes, duration_seconds \in Durations :
          ProcessLargeVideo(file_size_mb, duration_seconds)
    \/ \E ok \in BOOLEAN, compressed_size \in CompressedSizes :
          CompressDone(ok, compressed_size)
    \/ \E success \in BOOLEAN : CompressedSendDone(success)
    \/ \E outcome \in {"ok", "nonzero", "missing", "exception"} : SplitPartDone(outcome)
    \/ \E outcome \in {"ok", "rejected", "exception"} : SendPartDone(outcome)

SpecSplit == Init /\ [][NextSplit]_vars

\* the commands that decide who may download
NextAccess ==
    \/ \E user_id \in BotUsers : StartCommand(user_id)
    \/ \E user_id \in BotUsers, mode \in Modes : ModeCommand(user_id, mode)
    \/ \E user_id \in BotUsers, valid \in BOOLEAN : UrlMessage(user_id, valid)
    \/ \E user_id \in BotUsers, target_user_id \in BotUsers :
          ApproveCommand(user_id, target_user_id)
    \/ \E user_id \in BotUsers, target_user_id \in BotUsers :
          AddAdminCommand(user_id, target_user_id)
    \/ \E user_id \in BotUsers, target_user_id \in BotUsers :
          KickCommand(user_id, target_user_id)
    \/ \E user_id \in BotUsers : CloseCommand(user_id)

SpecAccess == Init /\ [][NextAccess]_vars

NextAdmin ==
    \/ Next
    \/ \E user_id \in {Operator, 101} : ClearHistoryCommand(user_id)

SpecAdmin == Init /\ [][NextAdmin]_vars

NextBot ==
    \/ Next
    \/ \E user_id \in {Operator, 101} : ModeCommand(user_id, "mp3")
    \/ \E user_id \in {Operator, 101} : CloseCommand(user_id)

SpecBot == Init /\ [][NextBot]_vars

NextClose ==
    \/ ApproveCommand(Operator, 101)
    \/ \E user_id \in {Operator, 101} : StartCommand(user_id)
    \/ \E user_id \in {Operator, 101} : ModeCommand(user_id, "mp3")
    \/ \E user_id \in {Operator, 101} : StartProgress(Caller, user_id, user_id)
    \/ \E ok \in BOOLEAN : StartResponse(Caller, ok)
    \/ \E user_id \in {Operator, 101} : CloseCommand(user_id)
    \/ Download("mp3", "FAILED", "a1", 0)
    \/ \E duration_minutes \in DurationMinutes("mp3") :
          DownloadRequest("mp3", 101, duration_minutes)

SpecClose == Init /\ [][NextClose]_vars

NextFetch ==
    \/ \E mode \in {"mp3", "mp4"}, run \in Runs :
          \E path \in PathsOf(mode), size \in SizesOf(mode) :
             DownloadFile(mode, run, path, size)
    \/ Deliver
    \/ \E sent \in BOOLEAN : DirectSendDone(sent)
    \/ \E split_success \in BOOLEAN : LargeVideoDone(split_success)

SpecFetch == Init /\ [][NextFetch]_vars

NextStore ==
    \/ \E path \in AudioPaths, fault \in Faults : StoreRecord(path, fault)
    \/ \E caller \in {"retry_update", "handler_update"}, download_id \in Ids,
          status \in {"SUCCESS", "FAILED"}, fault \in Faults :
          StoreUpdate(caller, download_id, status, fault)
    \/ \E fault \in Faults : StoreClear(fault)
    \/ \E fault \in {"none", "read"} : StoreList(fault)
    \/ StoreDamaged

SpecStore == Init /\ [][NextStore]_vars

NextPolling ==
    \/ ApproveCommand(Operator, 101)
    \/ \E user_id \in {Operator, 101}, mode \in Modes : ModeCommand(user_id, mode)
    \/ \E user_id \in {Operator, 101} : CloseCommand(user_id)
    \/ \E user_id \in {Operator, 101}, ok \in BOOLEAN : PipelineStart(user_id, ok)
    \/ \E raises \in BOOLEAN : PipelineEnds(raises)
    \/ \E user_id \in {Operator, 101} : UpdateRaises(user_id)

SpecPolling == Init /\ [][NextPolling]_vars

\* the steps of the monitoring task: the probe of one loop iteration is
\* answered, the send of a retry is answered, the pause after a delivery ends
MonitorStep ==
    \/ \E probe \in MainProbes : MonitorCycle(probe)
    \/ \E success \in BOOLEAN : SendFileDone(success)
    \/ RetryDelayDone

\* number of requests next to the monitoring task
LiveDownloads == 1

\* requests whose file is fetched and sent directly, next to the monitoring task
NextLive ==
    \/ MonitorStep
    \/ \E mode \in {"mp3", "mp4"} :
          \E path \in PathsOf(mode) :
             next_id < LiveDownloads /\ Download(mode, "SUCCESS", path, 40)
    \/ Deliver
    \/ \E sent \in BOOLEAN : DirectSendDone(sent)

\* the monitoring task is never starved: its sleep ends and every request it
\* awaits is answered or times out
SpecLive == Init /\ [][NextLive]_vars /\ WF_vars(MonitorStep)

\* the RetryManager under any sequence of start_monitoring and stop_monitoring
\* calls, with the deliveries of the request handler
NextManager ==
    \/ \E l \in Loops : StartMonitoring(l)
    \/ \E l \in Loops, probe \in MainProbes, n \in 0..MaxBatch : ProbeAnswered(l, probe, n)
    \/ \E l \in Loops, success \in BOOLEAN : UploadDone(l, success)
    \/ \E l \in Loops : DelayDone(l)
    \/ \E l \in Loops : SleepDone(l)
    \/ StopMonitoring
    \/ SendFileTelegram

SpecManager == Init /\ [][NextManager]_vars

\* the request handler on videos measured around the two size limits
RouteSizes == {44, 45, 46, 50, 51}
NextRoute ==
    \/ \E outcome \in {"SUCCESS", "FAILED"}, path \in VideoPaths, size \in RouteSizes :
          Download("mp4", outcome, path, size)
    \/ \E path \in AudioPaths, size \in SizesOf("mp3") :
          Download("mp3", "SUCCESS", path, size)
    \/ Deliver
    \/ \E sent \in BOOLEAN : DirectSendDone(sent)
    \/ \E split_success \in BOOLEAN : LargeVideoDone(split_success)

SpecRoute == Init /\ [][NextRoute]_vars

\* the progress signals of the two monitors, emitted and parsed
NextSignal ==
    \/ \E percentage \in ReadPercentages, speed \in ReadSpeeds, eta \in ReadEtas :
          YtDlpProgress(percentage, speed, eta)
    \/ \E phase_name \in Phases, percent \in ReadPercentages :
          FfmpegProgress(phase_name, percent)

SpecSignal == Init /\ [][NextSignal]_vars

\* the request handler of a bot started with or without a splitter; every
\* request that has fetched its file runs to the end of the handler
NextDelivery ==
    \/ SplitterInitFails
    \/ \E mode \in {"mp3", "mp4"}, outcome \in {"SUCCESS", "FAILED"} :
          \E path \in PathsOf(mode), size \in SizesOf(mode) :
             Download(mode, outcome, path, size)
    \/ DeliveryStep

SpecDelivery == Init /\ [][NextDelivery]_vars /\ WF_vars(DeliveryStep)

----------------------------------------------------------------------------
(* Properties of the upload lifecycle and the retry engine *)

Retryable == get_failed_uploads_from_history(history, files)

\* the retry pass is waiting for the answer of the send of this record
InFlight(download_id) ==
    /\ monitor.pc = "sending"
    /\ monitor.batch[monitor.i].download_id = download_id

ZeroStats == [returned |-> TRUE, attempted |-> 0, successful |-> 0, failed |-> 0]

\* C1: a call of retry_failed_uploads made while the stored classification is
\* not GOOD returns attempted = successful = failed = 0, starts no send,
\* leaves every record of the store unchanged and deletes no file.
C1_RetryPassGatedOnGood ==
    [][ (event'.op = "retry_call" /\ current_network_status # "good")
          => /\ event'.ret = ZeroStats
             /\ monitor'.pc = "idle"
             /\ history' = history
             /\ files' = files ]_vars

\* a gated call returned zeros although a retryable record was in the store
C1_Witness ==
    /\ event.op = "retry_call"
    /\ current_network_status # "good"
    /\ Retryable # << >>
    /\ event.ret = ZeroStats

\* what one step may do to one record, by C2
AllowedUploadStep(before, after) ==
    \/ /\ after.upload_status = before.upload_status
       /\ after.retry_count = before.retry_count
    \/ /\ before.upload_status = "FAILED" /\ after.upload_status = "FAILED"
       /\ after.retry_count = before.retry_count + 1
    \/ << before.upload_status, after.upload_status >> \in
          { << "PENDING", "SUCCESS" >>, << "PENDING", "FAILED" >>,
            << "FAILED", "SUCCESS" >> }

\* C2: in every step of either task the upload outcome of a record changes
\* only by PENDING->SUCCESS, PENDING->FAILED, FAILED->SUCCESS or
\* FAILED->FAILED with the retry counter raised by one (so SUCCESS and N/A are
\* final), and the retry pass never has a send in flight for a SUCCESS record.
C2_UploadOutcomeTransitions ==
    [][ /\ \A k \in 1..Len(history) :
              /\ k <= Len(history')
              /\ history'[k].download_id = history[k].download_id
              /\ AllowedUploadStep(history[k], history'[k])
        /\ monitor'.pc = "sending" =>
              \A k \in 1..Len(history') :
                 history'[k].download_id = monitor'.batch[monitor'.i].download_id
                    => history'[k].upload_status # "SUCCESS" ]_vars

\* a record went FAILED -> FAILED -> SUCCESS through the retry engine
C2_Witness ==
    \E k \in 1..Len(history) :
       /\ history[k].upload_status = "SUCCESS"
       /\ history[k].retry_count >= 1
       /\ history[k].last_retry

\* C3: in every step the retry_count of every stored record stays or grows,
\* and a record enters the store with retry_count = 0.
C3_RetryCountMonotone ==
    [][ /\ \A k \in 1..Len(history) :
              /\ k <= Len(history')
              /\ history'[k].retry_count >= history[k].retry_count
        /\ \A k \in (Len(history) + 1)..Len(history') :
              history'[k].retry_count = 0 ]_vars

\* a record was marked by the retry engine after it had failed three retries
C3_Witness ==
    \E k \in 1..Len(history) :
       /\ history[k].retry_count = 3
       /\ history[k].upload_status = "SUCCESS"

\* the positions of the store that list_retryable has to return
WantedRetryable ==
    { k \in 1..Len(history) :
        /\ history[k].download_status = "SUCCESS"
        /\ history[k].upload_status = "FAILED"
        /\ history[k].retry_count < max_retries
        /\ files[history[k].file_path] > 0 }

\* C4: get_failed_uploads_from_history returns exactly the stored records with
\* download outcome SUCCESS, upload outcome FAILED, retry_count < max_retries
\* and an existing file; nothing else and none of them twice.
C4_ListRetryableExact ==
    /\ Len(Retryable) = Cardinality(WantedRetryable)
    /\ \A k \in WantedRetryable : \E j \in 1..Len(Retryable) : Retryable[j] = history[k]
    /\ \A j \in 1..Len(Retryable) : \E k \in WantedRetryable : Retryable[j] = history[k]

\* one FAILED record is returned while another FAILED record is left out
C4_Witness ==
    /\ Retryable # << >>
    /\ \E k \in 1..Len(history) :
          /\ history[k].upload_status = "FAILED"
          /\ history[k].download_status = "SUCCESS"
          /\ \A j \in 1..Len(Retryable) : Retryable[j] # history[k]

\* C5: every retry attempt that ends in FAILED raises retry_count by one, a
\* record is counted in 'attempted' at most max_retries times, and a record
\* whose retry_count has reached max_retries is in no send of any pass.
C5_RetryCeiling ==
    \A k \in 1..Len(history) :
       LET r == history[k]
           n == attempts[r.download_id] IN
       /\ n <= max_retries
       /\ r.retry_count <= max_retries
       /\ InFlight(r.download_id) =>
             /\ r.upload_status = "FAILED"
             /\ r.retry_count < max_retries
             /\ n = r.retry_count + 1
       /\ (r.upload_status = "FAILED" /\ ~InFlight(r.download_id)) => n = r.retry_count
       /\ r.upload_status = "SUCCESS" => n \in { r.retry_count, r.retry_count + 1 }
       /\ r.upload_status \in {"PENDING", "N/A"} => n = 0

\* a record at the ceiling, file still on disk, was left out by a GOOD cycle
C5_Witness ==
    /\ event.op = "probe_cycle"
    /\ event.ret = ZeroStats
    /\ \E k \in 1..Len(history) :
          /\ history[k].upload_status = "FAILED"
          /\ history[k].retry_count = max_retries
          /\ attempts[history[k].download_id] = max_retries
          /\ Exists(files, history[k].file_path)

\* C6: when the delivery step of the handler marks a record FAILED, the file
\* it has just tried to deliver is still on disk and the record is returned by
\* get_failed_uploads_from_history.
C6_FailedDeliveryKeepsFile ==
    [][ ( /\ event'.op = "handler_update"
          /\ event'.arg = "FAILED"
          /\ Exists(files, handler.file_path) )
          => /\ Exists(files', handler.file_path)
             /\ \E j \in 1..Len(get_failed_uploads_from_history(history', files')) :
                   get_failed_uploads_from_history(history', files')[j].download_id
                      = event'.id ]_vars

\* C7: every status update, by the handler's delivery step or by the retry
\* pass, raises retry_count by exactly one on FAILED, and on SUCCESS leaves
\* retry_count unchanged and stamps last_retry.
C7_UpdateBumpsOrStamps ==
    [][ event'.op \in {"handler_update", "retry_send_done"}
          => LET k == FirstMatch(history, event'.id) IN
             /\ k > 0
             /\ event'.arg = "FAILED" =>
                   history'[k].retry_count = history[k].retry_count + 1
             /\ event'.arg = "SUCCESS" =>
                   /\ history'[k].retry_count = history[k].retry_count
                   /\ history'[k].last_retry ]_vars

\* the counts of the pass after this step: returned, or still running
FailedAfter == IF event'.ret.returned THEN event'.ret.failed ELSE monitor'.failed
SuccessfulAfter ==
    IF event'.ret.returned THEN event'.ret.successful ELSE monitor'.successful

\* C8: an exception raised while one record is retried adds one to 'failed'
\* and the loop goes on: while a send is in flight for batch entry i, all i
\* entries so far are counted in 'attempted' and the i - 1 before it in
\* 'successful' or 'failed'; a pass that was running ends by returning its
\* counts, which cover the whole batch.
C8_ExceptionDoesNotAbortBatch ==
    [][ /\ event'.op = "retry_raise" =>
              /\ FailedAfter >= monitor.failed + 1
              /\ SuccessfulAfter = monitor.successful
        /\ monitor'.pc = "sending" =>
              /\ monitor'.attempted = monitor'.i
              /\ monitor'.successful + monitor'.failed = monitor'.i - 1
        /\ (monitor.pc # "idle" /\ monitor'.pc = "idle") =>
              /\ event'.ret.returned
              /\ event'.ret.attempted = Len(monitor.batch)
              /\ event'.ret.successful + event'.ret.failed = Len(monitor.batch) ]_vars

\* the first entry raised, it was counted, and the second entry is being sent
C8_Witness ==
    /\ event.op = "retry_raise"
    /\ monitor.pc = "sending"
    /\ monitor.i = 2
    /\ monitor.failed = 1
    /\ event.id = monitor.batch[1].download_id

----------------------------------------------------------------------------
(* Properties of the progress reporter *)

\* the throttle of update_progress is open for a report, judged against `last`
ThrottleOpen(last, report, t) ==
    \/ report.force
    \/ Abs(report.percentage - last.percentage) >= 3
    \/ t - last.time >= 3
    \/ report.status # last.status
    \/ report.percentage >= 100

\* the report of the last edit the API accepted, or of the initial message
Acknowledged(user_id) ==
    [percentage |-> active_progress[user_id].last_percentage,
     status |-> active_progress[user_id].last_status,
     time |-> active_progress[user_id].last_update]

\* this step is an update_progress call that reaches the throttling decision
Decides == event'.op \in {"edit_post", "update_suppressed"}

\* a suppressed call returns success, sends nothing and leaves the session alone
SuppressedIsSilent ==
    event'.op = "update_suppressed" =>
        /\ event'.arg.result = "True"
        /\ active_progress' = active_progress
        /\ transmitted' = transmitted
        /\ \A t \in Tasks : task'[t].pc # "edit_post"

C10_StoredPercentageInRange ==
    \A user_id \in DOMAIN active_progress :
        /\ active_progress[user_id].last_percentage >= 0
        /\ active_progress[user_id].last_percentage <= 100

----------------------------------------------------------------------------
(* Properties of the progress bar renderers *)

\* the number of filled glyphs of a bar
FilledGlyphs(bar) == Cardinality({ i \in 1..Len(bar) : bar[i] = "filled" })

\* the filled glyphs of a bar come first
FilledFirst(bar) ==
    \A i \in 1..Len(bar), j \in 1..Len(bar) :
        (bar[i] = "empty" /\ bar[j] = "filled") => j < i

\* C11: for every input both renderers show the percentage clamped into [0,100]:
\* above 100 it shows 100 with all glyphs filled, below 0 it shows 0 with none
\* filled, and the bar has exactly width glyphs, of which the first
\* floor(p * width / 100) are filled, p being the clamped percentage.
C11_BarClampsAndFills ==
    event.op \in {"_create_progress_bar", "create_progress_bar"} =>
        LET width == event.id
            input == event.arg
            bar == event.ret.bar
            p == event.ret.percentage
        IN  /\ p = (IF input > 100 THEN 100 ELSE IF input < 0 THEN 0 ELSE input)
            /\ Len(bar) = width
            /\ FilledFirst(bar)
            /\ FilledGlyphs(bar) * 100 <= p * width
            /\ p * width < (FilledGlyphs(bar) + 1) * 100
            /\ input > 100 => FilledGlyphs(bar) = width
            /\ input < 0 => FilledGlyphs(bar) = 0

\* an input of 150 was rendered as a full bar of 20 glyphs
C11_Witness ==
    /\ event.op = "_create_progress_bar"
    /\ event.arg = 150
    /\ event.id = 20
    /\ FilledGlyphs(event.ret.bar) = 20
    /\ event.ret.percentage = 100

\* the tasks whose editMessageText request for this user is awaiting its answer
EditsInFlight(user_id) ==
    { t \in Tasks : task[t].pc = "edit_post" /\ task[t].user = user_id }

\* C12: under any interleaving of start, update, finish and cancel calls for one
\* user, at most one message edit for that user is in flight at any time.
C12_OneEditInFlight ==
    \A user_id \in Users : Cardinality(EditsInFlight(user_id)) <= 1

\* this step is a finish_progress or cancel_progress call on a live session
FinishCalled(t) == task[t].pc = "idle" /\ task'[t].op = "finish"

\* the final update of finish_progress, with the percentage `held` on failure
FinishForcesOneUpdate(held) ==
    \A t \in Tasks :
       /\ FinishCalled(t) =>
             /\ task'[t].pc = "edit_post"
             /\ task'[t].user \in DOMAIN active_progress
             /\ event'.op = "edit_post" /\ event'.arg.force
             /\ task'[t].status = "Complete!" => task'[t].percentage = 100
             /\ task'[t].status \in {"Failed!", "Cancelled"} =>
                   task'[t].percentage = held[task'[t].user].percentage
       /\ (task[t].op = "finish" /\ task[t].pc = "edit_post" /\ task'[t] # task[t]) =>
             /\ task'[t].pc = "fin_sleep"
             /\ task'[t].user = task[t].user
       /\ (task[t].pc = "fin_sleep" /\ task'[t] # task[t]) =>
             /\ task'[t].pc = "idle"
             /\ event'.op = "finish_done" /\ event'.arg = "True"
             /\ task[t].user \notin DOMAIN active_progress'
             /\ task[t].user \notin DOMAIN update_lock'

\* finish_progress and cancel_progress without a live session
FinishRejectedIsSilent ==
    event'.op \in {"finish_rejected", "cancel_rejected"} =>
        /\ event'.id \notin DOMAIN active_progress
        /\ event'.arg = "False"
        /\ UNCHANGED << pvars, qvars, avars, mvars >>

\* the percentage stored in each live session
Stored == [ u \in DOMAIN active_progress |->
              [percentage |-> active_progress[u].last_percentage] ]

----------------------------------------------------------------------------
(* Properties of the network prober *)

\* what one probe must classify as: 3 s and 15 s in tenths of a second
Classified(probe) ==
    IF probe.kind = "response"
    THEN IF probe.status = 200 /\ probe.response_time < 30 THEN "good" ELSE "poor"
    ELSE "offline"

\* C14: a 200 answer faster than 3 s classifies GOOD, a 200 answer of 3 s or
\* more (below or above the 15 s threshold) POOR, any other answer POOR, a
\* timeout or any other exception OFFLINE; and after update_network_status the
\* stored classification is that of the probe it has just made.
C14_ProbeClassification ==
    [][ event'.op = "probe_cycle" =>
          /\ event'.probe \in Probes
          /\ current_network_status' = Classified(event'.probe) ]_vars

\* a 200 answer slower than the 15 s threshold has been stored as POOR
C14_Witness ==
    /\ event.op = "probe_cycle"
    /\ event.probe.kind = "response"
    /\ event.probe.status = 200
    /\ event.probe.response_time > 150
    /\ current_network_status = "poor"

\* the step is a probe that changed the stored classification
StatusChanged == event'.op = "probe_cycle" /\ current_network_status' # current_network_status

\* the step ends a retry pass of the monitoring loop that attempted a record
PassReported ==
    /\ event'.op = "probe_cycle" \/ monitor.loop
    /\ event'.ret.returned
    /\ event'.ret.attempted > 0

\* the lines a step appended to the log that report a change of classification
ChangeLines == SelectSeq(event'.logged, LAMBDA line : line.error = "Status changed")

\* C15 (as the code has it): a probe whose classification differs from the stored
\* one appends exactly one line to the network-health log, carrying the new
\* classification, and a probe that leaves it unchanged appends none; the only
\* other lines are the retry statistics, one after each retry pass of the loop
\* that attempted at least one record.
C15_OneLinePerTransition ==
    [][ /\ Len(ChangeLines) = IF StatusChanged THEN 1 ELSE 0
        /\ StatusChanged => ChangeLines[1].status = current_network_status'
        /\ Len(event'.logged) = Len(ChangeLines) + IF PassReported THEN 1 ELSE 0 ]_vars

\* a probe has changed the classification to POOR and its line is in the log
C15_Witness ==
    /\ event.op = "probe_cycle"
    /\ current_network_status = "poor"
    /\ Len(event.logged) = 1
    /\ event.logged[1].status = "poor"
    /\ event.logged[1].error = "Status changed"

\* C15 (as stated): the log gains one line for each probe that changes the
\* classification and nothing else, so lines and transitions are one-to-one.
C15_LinesAreTransitions ==
    [][ Len(event'.logged) = IF StatusChanged THEN 1 ELSE 0 ]_vars

\* C16: every update_network_status adds one to the consecutive-failure counter
\* when the probe classified OFFLINE and sets it to 0 when it classified GOOD
\* or POOR, no other step touches the counter, and so the counter counts the
\* most recent consecutive OFFLINE probes and is 0 whenever the stored
\* classification is not OFFLINE.
C16_CounterCountsOfflineRun ==
    /\ [](current_network_status # "offline" => consecutive_failures = 0)
    /\ [][ IF event'.op = "probe_cycle"
           THEN consecutive_failures' =
                   IF Classified(event'.probe) = "offline"
                   THEN consecutive_failures + 1 ELSE 0
           ELSE consecutive_failures' = consecutive_failures ]_vars

\* two OFFLINE probes in a row have been counted
C16_Witness ==
    /\ event.op = "probe_cycle"
    /\ event.probe.kind = "timeout"
    /\ current_network_status = "offline"
    /\ consecutive_failures = 2

----------------------------------------------------------------------------
(* Properties of the daily quota *)

\* what the user has used on the current date
UsedToday(usage, user_id, day) ==
    IF user_id \in DOMAIN usage /\ usage[user_id].date = day
    THEN usage[user_id].used_mb ELSE 0

\* C17: check_daily_limit accepts exactly when the size is at most 100 minus
\* what the user has used today and returns that remainder (with 80 used, 25 is
\* refused with remainder 20 and 15 is accepted); usage of an earlier date
\* counts as 0; the check leaves today's usage as it was, and a refused request
\* starts no fetch.
C17_DailyLimit ==
    [][ event'.op \in {"check_daily_limit", "download_request"} =>
          LET user_id == event'.id
              size_mb == event'.arg
              used == UsedToday(user_usage, user_id, today)
          IN /\ event'.ret.accepted <=> size_mb <= 100 - used
             /\ event'.ret.remaining = 100 - used
             /\ (used = 80 /\ size_mb = 25) =>
                   ~event'.ret.accepted /\ event'.ret.remaining = 20
             /\ (used = 80 /\ size_mb = 15) => event'.ret.accepted
             /\ UsedToday(user_usage', user_id, today') = used
             /\ event'.op = "download_request" =>
                   (event'.ret.accepted <=> fetching' # NoFetch) ]_vars

\* with 80 MB used today a request estimated at 25 MB has been refused
C17_Witness ==
    /\ event.op = "download_request"
    /\ event.arg = 25
    /\ ~event.ret.accepted
    /\ event.ret.remaining = 20
    /\ UsedToday(user_usage, event.id, today) = 80
    /\ fetching = NoFetch

----------------------------------------------------------------------------
(* Properties of the large-video delivery *)

\* the step enters split_video
SplitStarts ==
    /\ event'.op \in {"process_large_video", "compress_done"}
    /\ splitter'.pc \in {"splitting", "sending"}

\* C18: a file above the 45 MB ceiling is cut into N = ceil(size / 45) segments
\* of duration total / N each, segment i (0-based) starting at i * total / N,
\* each starting where the one before ends and the last ending at the total
\* duration (120 MB and 600 s: three parts of 200 s at 0, 200 and 400); a
\* file within the ceiling is one part.
C18_EqualSegments ==
    [][ /\ SplitStarts =>
             LET size == splitter'.size
                 N == splitter'.num_parts
             IN /\ size <= 45 => N = 1 /\ splitter'.pc = "sending"
                /\ size > 45 => N * 45 >= size /\ (N - 1) * 45 < size
                /\ (size = 120 /\ splitter'.duration = 600) => N = 3
        /\ event'.op = "split_part" =>
             LET segment == event'.arg.segment
                 N == splitter.num_parts
                 total == Fr(splitter.duration, 1)
                 made == splitter.parts
             IN /\ segment.part = Len(made) + 1
                /\ segment.part <= N
                /\ FrEq(FrTimes(N, segment.duration), total)
                /\ FrEq(FrTimes(N, segment.start_time),
                        FrTimes(segment.part - 1, total))
                /\ made = << >> => segment.start_time.num = 0
                /\ made # << >> =>
                      FrEq(FrPlus(made[Len(made)].start_time, made[Len(made)].duration),
                           segment.start_time)
                /\ segment.part = N =>
                      /\ FrEq(FrPlus(segment.start_time, segment.duration), total)
                      /\ splitter'.pc = "sending"
                      /\ Len(splitter'.parts) = N
                /\ (splitter.size = 120 /\ splitter.duration = 600) =>
                      /\ FrEq(segment.duration, Fr(200, 1))
                      /\ FrEq(segment.start_time, Fr(200 * (segment.part - 1), 1)) ]_vars

\* the third and last part of a 120 MB, 600 s video has been cut at 400 s
C18_Witness ==
    /\ event.op = "split_part"
    /\ event.id = 3
    /\ splitter.pc = "sending"
    /\ splitter.size = 120
    /\ splitter.duration = 600
    /\ Len(splitter.parts) = 3
    /\ FrEq(splitter.parts[3].start_time, Fr(400, 1))
    /\ FrEq(splitter.parts[3].duration, Fr(200, 1))

\* the step ends send_split_parts and process_large_video with it
SendReturns == event'.op = "send_part" /\ event'.ret.returned

\* C19: the parts that were created are sent one after another in the order
\* Part 1/N .. Part N/N, a failed part not stopping the rest; the counts
\* returned add up to N, and the result is a success when all N were
\* delivered, a partial success (still a success) when some were, and a
\* failure when none was.
C19_SendsEveryPartInOrder ==
    [][ event'.op = "send_part" =>
          LET N == Len(splitter.parts)
              k == event'.id
              ret == event'.ret
          IN /\ event'.arg.total_parts = N
             /\ N = splitter.num_parts
             /\ event'.arg.sent = [ j \in 1..k |-> j ]
             /\ splitter.sent = [ j \in 1..(k - 1) |-> j ]
             /\ splitter.successful + splitter.failed = k - 1
             /\ ret.returned <=> k = N
             /\ ret.returned =>
                   /\ ret.successful + ret.failed = N
                   /\ ret.successful = N => ret.success /\ ret.message = "all parts"
                   /\ (0 < ret.successful /\ ret.successful < N) =>
                         ret.success /\ ret.message = "partial"
                   /\ ret.successful = 0 => ~ret.success ]_vars

\* two of three parts were delivered: partial success with counts (2, 1)
C19_Witness ==
    /\ event.op = "send_part"
    /\ event.id = 3
    /\ event.arg.sent = << 1, 2, 3 >>
    /\ event.ret.returned
    /\ event.ret.success
    /\ event.ret.message = "partial"
    /\ event.ret.successful = 2
    /\ event.ret.failed = 1

\* C20: when the transcoder run for any part ends with a non-zero exit, leaves
\* no file or raises, split_video returns no parts and process_large_video
\* returns a failure with counts (0, 0); no part has been sent and none is.
C20_SplitFailureSendsNothing ==
    [][ /\ (event'.op \in {"split_part", "split_failed"}
               /\ event'.arg.outcome \in {"nonzero", "missing", "exception"}) =>
             /\ event'.op = "split_failed"
             /\ event'.ret.returned
             /\ ~event'.ret.success
             /\ event'.ret.successful = 0
             /\ event'.ret.failed = 0
             /\ splitter.sent = << >>
             /\ splitter'.pc = "idle"
             /\ splitter'.parts = << >>
        /\ event'.op \in {"send_part", "send_compressed"} =>
             splitter.pc \in {"sending", "sending_compressed"} ]_vars

\* the second part of a split failed after the first had been created
C20_Witness ==
    /\ event.op = "split_failed"
    /\ event.id = 2
    /\ event.ret.returned
    /\ ~event.ret.success
    /\ event.ret.successful = 0
    /\ event.ret.failed = 0
    /\ splitter.pc = "idle"
    /\ 1 \in splitter.temp

----------------------------------------------------------------------------
(* Properties of access control and session routing *)

\* the user is on the admin list or on the allowed list
Member(user_id) == user_id \in admin_ids \cup allowed_ids

\* the mode the user's session is in
ModeOf(user_id) ==
    IF user_id \in DOMAIN user_sessions THEN user_sessions[user_id] ELSE "idle"

\* the step is a /kick that found its target
Kicks(target) == event'.op = "/kick" /\ event'.arg = Target(target, "done")

\* what holds of every step whoever the kicked user is
AccessGate ==
    /\ (event'.op = "url" /\ event'.arg = "pipeline started") =>
          Member(event'.id) /\ ModeOf(event'.id) \in {"mp3", "mp4"}
    /\ \A u \in BotUsers :
          /\ ~Member(u) => ModeOf(u) = "idle"
          /\ (~Member(u) /\ u \in admin_ids' \cup allowed_ids') =>
                event'.op \in {"/approve", "/addadmin"} /\ event'.arg = Target(u, "done")
          /\ Kicks(u) => u \notin allowed_ids' /\ u \notin DOMAIN user_sessions'

----------------------------------------------------------------------------
(* Properties of the admin commands on the History Store *)

\* C22: a /clearhistory issued by an admin empties the whole History Store and
\* reports the number of records removed, so that no record is eligible for a
\* retry afterwards; issued by anyone else it leaves the store unchanged.
C22_ClearHistoryEmptiesStore ==
    [][ event'.op = "/clearhistory" =>
           IF event'.id \in admin_ids
           THEN /\ history' = << >>
                /\ event'.arg.count = Len(history)
                /\ get_failed_uploads_from_history(history', files') = << >>
           ELSE history' = history ]_vars

\* an admin's /clearhistory has been handled and the store still holds a record
C22_StoreSurvivesClear ==
    /\ event.op = "/clearhistory"
    /\ event.id \in admin_ids
    /\ event.arg.outcome = "error"
    /\ history # << >>

----------------------------------------------------------------------------
(* Properties of the scheduling of the bot's tasks *)

\* the pipeline of a URL message has started and has not returned
PipelineSuspended == handler.pc # "idle"

\* C23: the pipelines are scheduled independently of the inbound loop: while a
\* pipeline is suspended, the bot can still handle an inbound command of any
\* user, a /close of the downloading user included.
C23_CommandsHandledDuringPipeline ==
    PipelineSuspended =>
       \A user_id \in {Operator, 101} :
          /\ ENABLED CloseCommand(user_id)
          /\ ENABLED ModeCommand(user_id, "mp3")

\* the probe loop is a task of its own: a monitoring cycle can run while a
\* pipeline is suspended
C23_MonitorRunsDuringPipeline ==
    (PipelineSuspended /\ monitor.pc = "idle") =>
       ENABLED (\E probe \in MainProbes : MonitorCycle(probe))

\* a pipeline is suspended while the session of the downloading user is in mp3 mode
C23_SuspendedWithSession ==
    /\ PipelineSuspended
    /\ get_user_session(user_sessions, Operator) = "mp3"

----------------------------------------------------------------------------
(* Properties of /close *)

\* the step handles a /close of a user who has access and a mode
ClosesSession(user_id) ==
    /\ event'.op = "/close"
    /\ event'.id = user_id
    /\ Member(user_id)
    /\ ModeOf(user_id) # "idle"

\* C24: a /close from a user with a mode cancels that user's progress session
\* only, by a finish flagged as a failure with the status "Cancelled", and
\* removes that user's session only; the sessions and progress sessions of the
\* other users, the History Store, the files and a fetch in progress are left
\* as they were.  A /close from a user whose mode is idle changes no state.
C24_CloseTouchesOnlyItsUser ==
    [][ event'.op = "/close" =>
           /\ UNCHANGED << hvars, qvars, admin_ids, allowed_ids >>
           /\ \A u \in BotUsers :
                 IF ClosesSession(u)
                 THEN /\ u \notin DOMAIN user_sessions'
                      /\ u \notin DOMAIN active_progress'
                      /\ u \notin DOMAIN update_lock'
                      /\ event'.arg.final.sent <=> u \in DOMAIN active_progress
                      /\ event'.arg.final.sent =>
                            /\ event'.arg.final.status = "Cancelled"
                            /\ event'.arg.final.percentage =
                                  active_progress[u].last_percentage
                 ELSE /\ (u \in DOMAIN user_sessions) <=> (u \in DOMAIN user_sessions')
                      /\ u \in DOMAIN user_sessions => user_sessions'[u] = user_sessions[u]
                      /\ (u \in DOMAIN active_progress) <=> (u \in DOMAIN active_progress')
                      /\ u \in DOMAIN active_progress =>
                            /\ active_progress'[u] = active_progress[u]
                            /\ update_lock'[u] = update_lock[u] ]_vars

\* user 101 has closed a session with a live progress session, while the admin
\* keeps a mode and a progress session, the store holds a record and a fetch
\* is in progress
C24_Witness ==
    /\ event.op = "/close"
    /\ event.id = 101
    /\ event.arg.final.sent
    /\ 101 \notin DOMAIN user_sessions
    /\ 101 \notin DOMAIN active_progress
    /\ ModeOf(Operator) = "mp3"
    /\ Operator \in DOMAIN active_progress
    /\ history # << >>
    /\ fetching # NoFetch

----------------------------------------------------------------------------
(* Properties of the fetch *)

\* the last record of the store
LastRecord(h) == h[Len(h)]

\* C25: every call of download_mp3 or download_mp4 has appended exactly one
\* record by the time it returns: SUCCESS with the upload PENDING when the fetch
\* completed, FAILED or ERROR with the upload N/A otherwise.
C25_OneRecordPerFetch ==
    [][ event'.op = "fetch" =>
           /\ Len(history') = Len(history) + 1
           /\ SubSeq(history', 1, Len(history)) = history
           /\ LastRecord(history').download_id = event'.id
           /\ IF event'.arg.success
              THEN /\ LastRecord(history').download_status = "SUCCESS"
                   /\ LastRecord(history').upload_status = "PENDING"
              ELSE /\ LastRecord(history').download_status \in {"FAILED", "ERROR"}
                   /\ LastRecord(history').upload_status = "N/A" ]_vars

\* a fetch turned down by the quota check has returned and the store is empty
C25_RejectedWithoutRecord ==
    /\ event.op = "fetch"
    /\ ~event.arg.run.quota
    /\ event.arg.run.info_exit = 0
    /\ history = << >>

\* the exit codes of the tools of one run
ToolFailed(run) ==
    \/ run.info_exit \notin {NotRun, 0}
    \/ run.fetch_exit \notin {NotRun, 0}
    \/ run.convert_exit \notin {NotRun, 0}

\* C26: a run in which the extraction tool or the transcoder exits with a
\* non-zero code, at the metadata, the download or the conversion step, is
\* recorded as FAILED and reported as a failure, never as SUCCESS.
C26_ToolFailureIsRecorded ==
    [][ (event'.op = "fetch" /\ ToolFailed(event'.arg.run)) =>
           /\ ~event'.arg.success
           /\ Len(history') = Len(history) + 1
           /\ LastRecord(history').download_status = "FAILED" ]_vars

\* a run whose conversion exited with an error has been recorded as SUCCESS
C26_FailedConversionRecordedSuccess ==
    /\ event.op = "fetch"
    /\ event.arg.run.convert_exit = 1
    /\ event.arg.success
    /\ history # << >>
    /\ LastRecord(history).download_status = "SUCCESS"

----------------------------------------------------------------------------
(* Properties of the History Store under faults *)

\* the step is an operation of the program on the store
StoreOperation == event'.op \in {"record", "retry_update", "handler_update", "clear", "list"}

\* the operation met an unreadable store or a failing read or write
Faulted == IsUnparsable(history) \/ event'.arg.fault # "none"

\* C27: an operation that meets an unreadable or corrupt History Store, or
\* whose write fails, does not raise: the list of retryable records comes back
\* empty, update and record leave the content of the store unchanged, clear
\* returns 0.
C27_FaultsLeaveStoreUnchanged ==
    [][ (StoreOperation /\ Faulted) =>
           /\ ~event'.arg.raised
           /\ history' = history
           /\ event'.op = "list" => event'.arg.ret = << >>
           /\ event'.op = "clear" => event'.arg.ret = 0 ]_vars

\* what does hold: no operation raises, a failing read or a store that cannot
\* be opened for writing leaves the content as it was, and a write that fails
\* after the truncation leaves a store that no longer parses
C27_FaultsAreContained ==
    [][ (StoreOperation /\ Faulted) =>
           /\ ~event'.arg.raised
           /\ history' \in {history, Unparsable}
           /\ (IsUnparsable(history) \/ event'.arg.fault \in {"read", "open"}) =>
                 /\ history' = history
                 /\ event'.op = "list" => event'.arg.ret = << >>
                 /\ event'.op = "clear" => event'.arg.ret = 0 ]_vars

\* a record was being added to a store of one record when the write failed,
\* and the store no longer parses
C27_WriteFailureDamagesStore ==
    /\ event.op = "record"
    /\ event.arg.fault = "write"
    /\ IsUnparsable(history)
    /\ next_id = 2

----------------------------------------------------------------------------
(* Properties of the exception boundaries *)

\* the polling loop has not ended
PollingAlive == handler.pc # "stopped"

\* C28: an exception raised while one update or one pipeline is handled is
\* caught at that boundary: the polling loop never ends, it is ready for the
\* next update after the step, and the progress session of the failing
\* request is gone.
C28_ExceptionsAreContained ==
    /\ [](PollingAlive /\ (Polled => ENABLED CloseCommand(Operator)))
    /\ [][ event'.op \in {"pipeline_raised", "update_raised"} =>
              /\ handler'.pc = "idle"
              /\ Polled'
              /\ event'.op = "pipeline_raised" =>
                    /\ event'.id \notin DOMAIN active_progress'
                    /\ event'.id \notin DOMAIN update_lock' ]_vars

\* a pipeline with a live progress session has raised, the session is gone
\* and the loop is ready for the next update
C28_Witness ==
    /\ event.op = "pipeline_raised"
    /\ event.arg = "session"
    /\ event.id \notin DOMAIN active_progress
    /\ handler.pc = "idle"
    /\ get_user_session(user_sessions, event.id) \in Modes

----------------------------------------------------------------------------
(* Progress of the retry engine *)

\* a loop iteration has just classified its probe as GOOD
GoodProbe == event.op = "probe_cycle" /\ event.probe.kind # "none"
                /\ current_network_status = "good"

\* the record of the download, if the store has one
HasRecord(download_id) == FirstMatch(history, download_id) # 0
RecordOf(download_id) == history[FirstMatch(history, download_id)]

\* the upload of the download failed and its file is on disk
FailedOnDisk(download_id) ==
    /\ HasRecord(download_id)
    /\ RecordOf(download_id).upload_status = "FAILED"
    /\ Exists(files, RecordOf(download_id).file_path)

\* the upload succeeded, the retries are used up, or the file is gone
Settled(download_id) ==
    /\ HasRecord(download_id)
    /\ \/ RecordOf(download_id).upload_status = "SUCCESS"
       \/ RecordOf(download_id).retry_count = max_retries
       \/ ~Exists(files, RecordOf(download_id).file_path)

\* C29: if the monitoring loop keeps running and classifies its probe as GOOD
\* again and again, every record whose upload is FAILED and whose file stays
\* on disk is eventually SUCCESS or has used up its max_retries retries.
C29_FailedUploadIsSettled ==
    \A download_id \in Ids :
       ([]<>GoodProbe) => (FailedOnDisk(download_id) ~> Settled(download_id))

\* a record has used up its retries with its file still on disk
C29_Witness ==
    \E download_id \in Ids :
       /\ HasRecord(download_id)
       /\ RecordOf(download_id).upload_status = "FAILED"
       /\ RecordOf(download_id).retry_count = max_retries
       /\ Exists(files, RecordOf(download_id).file_path)

----------------------------------------------------------------------------
(* Properties of the interleaving on the History Store *)

\* the request handler is between the record of its fetch and its return, and
\* record k is the one it works on
HandlerTargets(k) ==
    handler.pc # "idle" /\ history[k].download_id = handler.download_id

\* the step is taken by the monitoring task and record k is one it may retry
MonitorTargets(k) ==
    /\ event'.op \in {"probe_cycle", "retry_send_done", "retry_delay_done"}
    /\ history[k].upload_status = "FAILED"
    /\ history[k].retry_count < max_retries

\* C30: no update of the History Store is lost.  Every record, update and
\* clear reads, changes and writes the store in one step of its task, so a
\* step keeps every record, keeps every retry count, and changes only the
\* record its own task works on; what the other task stored stays.
C30_NoLostUpdate ==
    [][ /\ Len(history') >= Len(history)
        /\ \A k \in 1..Len(history) :
              /\ history'[k].download_id = history[k].download_id
              /\ history'[k].retry_count >= history[k].retry_count
              /\ history'[k] # history[k] => (HandlerTargets(k) \/ MonitorTargets(k))
              /\ (history'[k] # history[k] /\ HandlerTargets(k)) => ~MonitorTargets(k) ]_vars

\* the handler has stored the outcome of its upload of the second download
\* while the monitoring task is suspended in a pass that has retried the first
C30_Witness ==
    /\ event.op = "handler_update"
    /\ event.id = 2
    /\ Len(history) = 2
    /\ history[1].retry_count > 0
    /\ history[2].upload_status \in {"SUCCESS", "FAILED"}
    /\ monitor.pc # "idle"

----------------------------------------------------------------------------
(* Properties of the monitoring calls and the session of the RetryManager *)

\* C31: the retry engine never has two uploads in flight at once: the records
\* of a pass are sent one after another, a pass runs only inside the single
\* monitoring loop after a GOOD probe of the same cycle, and a start_monitoring
\* call made while a loop is running starts no second loop.
C31_OneUploadInFlight ==
    /\ Cardinality(UploadsInFlight) <= 1
    /\ Cardinality(LoopsRunning) <= 1

\* C33: every upload sent through the RetryManager runs on a session with the
\* long upload timeouts (total 120 s, connect 30 s) and every probe on one
\* with the short timeouts (total 20 s, connect 10 s), whichever call created
\* the session first.
C33_TimeoutsFitTheRequest ==
    /\ (/\ event.op \in {"probe_answered", "upload_done", "delay_done",
                         "send_file_telegram"}
        /\ event.arg.started)
           => event.arg.session = UploadTimeout
    /\ event.op \in {"start_monitoring", "next_cycle"}
           => event.arg.session.closed \/ event.arg.session = ProbeTimeout

----------------------------------------------------------------------------
(* Properties of the routing of a downloaded video *)

\* the delivery step of the handler has chosen between the splitter and the
\* direct upload for the file it holds
Routed == handler.pc = "downloaded" /\ handler'.pc \in {"splitting", "sending"}
\* size of the file the handler holds
HeldSize == files[handler.file_path]

----------------------------------------------------------------------------
(* Properties of the progress signal *)

\* C34: a signal emitted by the pipeline and parsed by the callback of the
\* reporter yields the status and percentage that were emitted, and an absent
\* speed or ETA is emitted as an empty field and arrives as absent, never as
\* text.
C34_SignalRoundTrip ==
    event.op = "signal" =>
        /\ event.arg.parsed.status = event.arg.report.status
        /\ event.arg.parsed.percentage = event.arg.report.percentage
        /\ event.arg.parsed.speed = event.arg.report.speed
        /\ event.arg.parsed.eta = event.arg.report.eta
        /\ event.arg.report.speed = "" => event.arg.signal[3] = ""
        /\ event.arg.report.eta = "" => event.arg.signal[4] = ""

----------------------------------------------------------------------------
(* Properties of the progress session of a user *)

\* C35: at most one progress session is live per user, and from the start of
\* a session until its finish or cancel its message handle and target chat
\* never change, under any sequence of start, update, finish and cancel calls.
C35_SessionHandleIsFixed ==
    [][ \A user_id \in (DOMAIN active_progress) \cap (DOMAIN active_progress') :
            /\ active_progress'[user_id].message_id = active_progress[user_id].message_id
            /\ active_progress'[user_id].chat_id = active_progress[user_id].chat_id ]_vars

----------------------------------------------------------------------------
(* Properties of the outcome of one retry *)

\* the record the retry pass is sending
Retried == monitor.batch[monitor.i]
\* the send of the retry pass has been answered in this step
RetryAnswered(outcome) ==
    /\ monitor.pc = "sending"
    /\ event'.op = "retry_send_done"
    /\ event'.arg = outcome
\* the upload status the step leaves in the record of the download
StatusAfter(download_id) ==
    history'[FirstMatch(history', download_id)].upload_status
\* every file but the one at path is as it was
OtherFilesKept(path) == \A p \in Paths \ {path} : files'[p] = files[p]

\* C36: after a retry succeeds the record is SUCCESS and the file is deleted
\* exactly when it is an MP4, an MP3 being retained; after a retry fails the
\* file is left in place and the record is FAILED.  No other file changes.
C36_RetryOutcomeEffects ==
    [][ /\ RetryAnswered("SUCCESS") =>
            /\ StatusAfter(Retried.download_id) = "SUCCESS"
            /\ Retried.type = "MP4" => ~Exists(files', Retried.file_path)
            /\ Retried.type = "MP3" =>
                  /\ Exists(files', Retried.file_path)
                  /\ files'[Retried.file_path] = files[Retried.file_path]
            /\ OtherFilesKept(Retried.file_path)
        /\ RetryAnswered("FAILED") =>
            /\ StatusAfter(Retried.download_id) = "FAILED"
            /\ files' = files ]_vars

\* an audio file has been delivered by a retry and is still on disk
C36_Witness ==
    /\ event.op = "retry_send_done"
    /\ event.arg = "SUCCESS"
    /\ HasRecord(event.id)
    /\ RecordOf(event.id).type = "MP3"
    /\ RecordOf(event.id).upload_status = "SUCCESS"
    /\ Exists(files, RecordOf(event.id).file_path)

----------------------------------------------------------------------------
(* Properties of the delivery step of a request *)

\* the upload outcome of the download is the one given
UploadIs(download_id, statuses) ==
    HasRecord(download_id) /\ RecordOf(download_id).upload_status \in statuses

\* C37: every record created with the upload outcome PENDING is eventually set
\* to SUCCESS or FAILED by the delivery step of the request that created it,
\* provided the handler of that request runs to completion; no record stays
\* PENDING forever.
C37_PendingIsSettled ==
    \A download_id \in Ids :
        UploadIs(download_id, {"PENDING"}) ~> UploadIs(download_id, {"SUCCESS", "FAILED"})

----------------------------------------------------------------------------
(* Properties of the final update of a progress session *)

\* the task sends an editMessageText request in this step
EditPosted(t) == task[t].pc # "edit_post" /\ task'[t].pc = "edit_post"
\* the final update of finish_progress / cancel_progress has edited the
\* message and the call has not yet discarded the session
FinalTransmitted(t) == task[t].pc = "fin_sleep" /\ task[t].message_id # 0

\* C38: once the forced final update of finish or cancel has been transmitted,
\* no further edit of the message of that session is transmitted, under any
\* interleaving with pending update calls; and no edit is sent for a session
\* that has been discarded.
C38_FinalUpdateIsLast ==
    [][ \A t \in Tasks, other \in Tasks :
           /\ (FinalTransmitted(t) /\ EditPosted(other))
                 => task'[other].message_id # task[t].message_id
           /\ EditPosted(other) =>
                 /\ task'[other].user \in DOMAIN active_progress
                 /\ active_progress[task'[other].user].message_id
                       = task'[other].message_id ]_vars

----------------------------------------------------------------------------
(* Properties of the daily usage counter *)

\* C39: per user and day the usage counter never exceeds the 100 MB limit,
\* after any sequence of accepted and rejected fetches; the counter changes
\* only when a fetch of that user completes successfully, by the measured
\* size of the file, and is unchanged by rejected or failed attempts.
C39_UsageWithinLimit ==
    /\ [](\A user_id \in Users : UsedToday(user_usage, user_id, today) <= daily_limit_mb)
    /\ [][ \A user_id \in Users :
              today' = today =>
                 IF event'.op = "fetch_done" /\ event'.id = user_id
                 THEN UsedToday(user_usage', user_id, today)
                         = UsedToday(user_usage, user_id, today) + event'.arg
                 ELSE UsedToday(user_usage', user_id, today) = UsedToday(user_usage, user_id, today)
       ]_vars

----------------------------------------------------------------------------
(* Properties of the temporary files of the large-video delivery *)

\* C40: when process_large_video returns, on every path, no compressed file
\* and no segment file it created remains in the temp directory.
C40_NoTempFilesLeft == splitter.pc = "idle" => splitter.temp = {}

====
